---------------------------- MODULE Spec2Model ----------------------------
(***************************************************************************)
(* A model of TuiView's vector rasterizer (src/src/vectorrasterizer.c):    *)
(* the WKB decoder, the coordinate mapping, Bresenham stroking with width  *)
(* expansion, the point cross, the ring accumulator and the scanline fill. *)
(*                                                                         *)
(* Conventions                                                             *)
(*  - The WKB buffer is a sequence of bytes; the cursor pWKB is a 0-based  *)
(*    byte offset, so the byte under the cursor is mem[pWKB + 1].          *)
(*  - mem is the memory that can be read through the buffer pointer: the   *)
(*    nWKBSize bytes of the buffer followed by whatever lies behind it.    *)
(*    A read at an offset >= nWKBSize is an out-of-bounds read (it yields  *)
(*    the bytes that happen to be there); a read past Len(mem) leaves the  *)
(*    mapped memory and ends the process (result "segv").                  *)
(*  - C doubles are modelled by exact rationals [n, d] (d > 0, reduced);   *)
(*    floating-point rounding error is not modelled.  Coordinates stored   *)
(*    in a record are integers.                                            *)
(*  - The canvas pArray is the set of cells <<column, row>> whose byte     *)
(*    holds 1; every other byte holds the 0 PyArray_ZEROS gave it.         *)
(*  - The C call stack of the recursive decoder is the variable stack:     *)
(*    one frame per loop that still has members to decode.                 *)
(***************************************************************************)
EXTENDS Integers, Sequences, FiniteSets, TLC

(***************************************************************************)
(* Bounds of the model.                                                    *)
(***************************************************************************)
MaxCoord == 4
MaxLineWidth == 3
MaxHalfCross == 3
TailLen == 12

(***************************************************************************)
(* Exact arithmetic standing for the C double arithmetic.                  *)
(***************************************************************************)
Abs(i) == IF i < 0 THEN -i ELSE i

Min(a, b) == IF a < b THEN a ELSE b

Max(a, b) == IF a > b THEN a ELSE b

RECURSIVE Gcd(_, _)
Gcd(a, b) == IF b = 0 THEN a ELSE Gcd(b, a % b)

\* the rational n/d in lowest terms with a positive denominator (d # 0)
Rat(n, d) ==
    LET g == Gcd(Abs(n), Abs(d))
        s == IF d < 0 THEN -1 ELSE 1
    IN  [n |-> (s * n) \div g, d |-> (s * d) \div g]

RInt(i) == [n |-> i, d |-> 1]

RAdd(a, b) == Rat(a.n * b.d + b.n * a.d, a.d * b.d)

RSub(a, b) == Rat(a.n * b.d - b.n * a.d, a.d * b.d)

RMul(a, b) == Rat(a.n * b.n, a.d * b.d)

\* a / b for b # 0
RDiv(a, b) == Rat(a.n * b.d, a.d * b.n)

RLt(a, b) == a.n * b.d < b.n * a.d

RLe(a, b) == a.n * b.d <= b.n * a.d

\* the C conversion double -> int: truncation toward zero
RTrunc(a) == IF a.n >= 0 THEN a.n \div a.d ELSE -((-a.n) \div a.d)

\* C round(): to the nearest integer, halfway cases away from zero
RRound(a) ==
    IF a.n >= 0 THEN (2 * a.n + a.d) \div (2 * a.d)
    ELSE -((2 * (-a.n) + a.d) \div (2 * a.d))

\* C ceil() and floor() of a rational
RCeil(a) == -((-a.n) \div a.d)

RFloor(a) == a.n \div a.d

(***************************************************************************)
(* Bytes.  READ_WKB_VAL is a memcpy of sizeof(n) bytes in native (little   *)
(* endian) order followed by p += sizeof(n).                               *)
(***************************************************************************)
SizeofU32 == 4
SizeofDouble == 8

\* the n bytes at offsets p .. p+n-1 (all mapped)
Bytes(m, p, n) == [i \in 1..n |-> m[p + i]]

\* A GUInt32 read.  Values of 2^24 and more are kept as 2^24: every such
\* count is larger than the whole mapped memory, which is all the decoder's
\* arithmetic on it can tell.
HugeCount == 256 * 256 * 256

U32(b) == IF b[4] > 0 THEN HugeCount ELSE b[1] + 256 * b[2] + 65536 * b[3]

U32Bytes(n) == << n % 256, (n \div 256) % 256, (n \div 65536) % 256, 0 >>

\* The eight bytes of a double.  The model stores a coordinate (an integer
\* of -128 .. 127) as a 64-bit little endian two's complement integer; it
\* stands for the IEEE-754 pattern, which the decoder only ever copies with
\* memcpy.  The value read back is that of the low byte, whatever the seven
\* bytes above it hold.
DoubleBytes(v) ==
    LET s == IF v < 0 THEN 255 ELSE 0
    IN  << v % 256, s, s, s, s, s, s, s >>

DoubleVal(b) == IF b[1] >= 128 THEN b[1] - 256 ELSE b[1]

(***************************************************************************)
(* WKB type tags (ogr_api.h), as the four bytes READ_WKB_VAL copies.       *)
(***************************************************************************)
wkbPoint == << 1, 0, 0, 0 >>
wkbLineString == << 2, 0, 0, 0 >>
wkbPolygon == << 3, 0, 0, 0 >>
wkbMultiPoint == << 4, 0, 0, 0 >>
wkbMultiLineString == << 5, 0, 0, 0 >>
wkbMultiPolygon == << 6, 0, 0, 0 >>
wkbGeometryCollection == << 7, 0, 0, 0 >>
wkbNone == << 100, 0, 0, 0 >>
wkbPoint25D == << 1, 0, 0, 128 >>
wkbLineString25D == << 2, 0, 0, 128 >>
wkbPolygon25D == << 3, 0, 0, 128 >>
wkbMultiPoint25D == << 4, 0, 0, 128 >>
wkbMultiLineString25D == << 5, 0, 0, 128 >>
wkbMultiPolygon25D == << 6, 0, 0, 128 >>
wkbGeometryCollection25D == << 7, 0, 0, 128 >>
\* a tag the decoder does not know (wkbCircularString)
wkbOther == << 8, 0, 0, 0 >>

(***************************************************************************)
(* Geometries and their WKB encoding: the well-formed records the callers  *)
(* hand to the decoder (OGR_G_ExportToWkb, or the bytes argument of        *)
(* rasterizeWKB).  A geometry is [t, z, pts, parts]: t the kind, z = 1     *)
(* for the 2.5D variant, pts the vertices <<x, y>> of a Point, LineString  *)
(* or LinearRing, parts the rings of a Polygon or the members of a Multi*  *)
(* or GeometryCollection.                                                  *)
(***************************************************************************)
Geom(t, z, pts, parts) == [t |-> t, z |-> z, pts |-> pts, parts |-> parts]

Pt(z, x, y) == Geom("Point", z, << <<x, y>> >>, << >>)

Line(z, pts) == Geom("LineString", z, pts, << >>)

Ring(z, pts) == Geom("LinearRing", z, pts, << >>)

Poly(z, rings) == Geom("Polygon", z, << >>, [i \in 1..Len(rings) |-> Ring(z, rings[i])])

Multi(t, z, parts) == Geom(t, z, << >>, parts)

NoGeom == Geom("None", 0, << >>, << >>)

\* a record whose tag the decoder does not know, with one coordinate as body
Other(z, x, y) == Geom("Other", z, << <<x, y>> >>, << >>)

\* the third ordinate written for every vertex of a 2.5D record
ZOrdinate == MaxCoord + 3

TagOf(g) ==
    LET b == CASE g.t = "Point" -> wkbPoint
               [] g.t = "LineString" -> wkbLineString
               [] g.t = "Polygon" -> wkbPolygon
               [] g.t = "MultiPoint" -> wkbMultiPoint
               [] g.t = "MultiLineString" -> wkbMultiLineString
               [] g.t = "MultiPolygon" -> wkbMultiPolygon
               [] g.t = "GeometryCollection" -> wkbGeometryCollection
               [] g.t = "None" -> wkbNone
               [] OTHER -> wkbOther
    IN  IF g.z = 2 THEN << b[1] + 184, 11, b[3], 0 >>   \* wkbLineStringZM = 3002: 3000 + the 2-D tag
        ELSE << b[1], b[2], b[3], IF g.z = 1 THEN 128 ELSE 0 >>

RECURSIVE Concat(_)
Concat(ss) == IF ss = << >> THEN << >> ELSE Head(ss) \o Concat(Tail(ss))

EncodeCoord(z, pt) ==
    DoubleBytes(pt[1]) \o DoubleBytes(pt[2])
        \o (IF z >= 1 THEN DoubleBytes(ZOrdinate) ELSE << >>)
        \o (IF z = 2 THEN DoubleBytes(ZOrdinate + 1) ELSE << >>)

EncodeCoords(z, pts) == Concat([i \in 1..Len(pts) |-> EncodeCoord(z, pts[i])])

\* the byte order mark (wkbNDR) and the type tag
EncodeHeader(g) == << 1 >> \o TagOf(g)

RECURSIVE Encode(_)
Encode(g) ==
    CASE g.t \in {"Point", "Other"} ->
            EncodeHeader(g) \o EncodeCoords(g.z, g.pts)
      [] g.t = "LineString" ->
            EncodeHeader(g) \o U32Bytes(Len(g.pts)) \o EncodeCoords(g.z, g.pts)
      [] g.t = "LinearRing" ->
            U32Bytes(Len(g.pts)) \o EncodeCoords(g.z, g.pts)
      [] g.t = "None" -> EncodeHeader(g)
      [] OTHER ->
            EncodeHeader(g) \o U32Bytes(Len(g.parts))
                \o Concat([i \in 1..Len(g.parts) |-> Encode(g.parts[i])])

(***************************************************************************)
(* The rasterization context (VectorWriterData) and the burning            *)
(* operations.  Each burning operation is modelled by the set of canvas    *)
(* cells <<column, row>> it stores 1 into.                                 *)
(***************************************************************************)
\* pExtents is (tlx, tly, brx, bry); C index k is TLA+ index k + 1
ExtMinX(d) == d.pExtents[1]

ExtMaxY(d) == d.pExtents[2]

ExtMaxX(d) == d.pExtents[3]

\* InArray with the upper limits tested by <= instead of <
InArray_OffByOne(d, x, y) == (x >= 0) /\ (x <= d.nXSize) /\ (y >= 0) /\ (y <= d.nYSize)

InArray(d, x, y) == (x >= 0) /\ (x < d.nXSize) /\ (y >= 0) /\ (y < d.nYSize)

\* VectorWriter_plot that takes a width below 1 for the width 1
VectorWriter_plot_ZeroWidth(d, x, y) ==
    IF d.nLineWidth <= 1
    THEN IF InArray(d, x, y) THEN { <<x, y>> } ELSE { }
    ELSE LET dSize == Rat(d.nLineWidth - 1, 2)
             nNorthWestPixels == RCeil(dSize)
             nSouthEastPixels == RFloor(dSize)
         IN  { c \in ((x - nNorthWestPixels)..(x + nSouthEastPixels))
                        \X ((y - nNorthWestPixels)..(y + nSouthEastPixels)) :
                 InArray(d, c[1], c[2]) }

\* VectorWriter_plot with the two halves of the square exchanged
VectorWriter_plot_SouthEast(d, x, y) ==
    IF d.nLineWidth = 1
    THEN IF InArray(d, x, y) THEN { <<x, y>> } ELSE { }
    ELSE IF d.nLineWidth > 1
    THEN LET dSize == Rat(d.nLineWidth - 1, 2)
             nNorthWestPixels == RFloor(dSize)
             nSouthEastPixels == RCeil(dSize)
         IN  { c \in ((x - nNorthWestPixels)..(x + nSouthEastPixels))
                        \X ((y - nNorthWestPixels)..(y + nSouthEastPixels)) :
                 InArray(d, c[1], c[2]) }
    ELSE { }

VectorWriter_plot(d, x, y) ==
    IF d.nLineWidth = 1
    THEN IF InArray(d, x, y) THEN { <<x, y>> } ELSE { }
    ELSE IF d.nLineWidth > 1
    THEN LET dSize == Rat(d.nLineWidth - 1, 2)
             nNorthWestPixels == RCeil(dSize)
             nSouthEastPixels == RFloor(dSize)
             tlx == x - nNorthWestPixels
             tly == y - nNorthWestPixels
             brx == x + nSouthEastPixels
             bry == y + nSouthEastPixels
         IN  { c \in (tlx..brx) \X (tly..bry) : InArray(d, c[1], c[2]) }
    ELSE { }

Sign(i) == IF i > 0 THEN 1 ELSE IF i < 0 THEN -1 ELSE 0

\* BresenhamXMajor that breaks the tie error = 0 by the direction of y
RECURSIVE BresenhamXMajor_MinorTie(_, _, _, _, _, _, _, _)
BresenhamXMajor_MinorTie(x1, y1, x2, error, ix, iy, delta_x, delta_y) ==
    IF x1 = x2 THEN << >>
    ELSE LET step == (error >= 0) /\ ((error # 0) \/ (iy > 0))
             e1 == IF step THEN error - delta_x ELSE error
             ny1 == IF step THEN y1 + iy ELSE y1
             nx1 == x1 + ix
         IN  << <<nx1, ny1>> >>
                \o BresenhamXMajor_MinorTie(nx1, ny1, x2, e1 + delta_y, ix, iy, delta_x, delta_y)

\* the loop of the branch delta_x >= delta_y: the pixels plotted after the first
RECURSIVE BresenhamXMajor(_, _, _, _, _, _, _, _)
BresenhamXMajor(x1, y1, x2, error, ix, iy, delta_x, delta_y) ==
    IF x1 = x2 THEN << >>
    ELSE LET step == (error >= 0) /\ ((error # 0) \/ (ix > 0))
             e1 == IF step THEN error - delta_x ELSE error
             ny1 == IF step THEN y1 + iy ELSE y1
             nx1 == x1 + ix
         IN  << <<nx1, ny1>> >>
                \o BresenhamXMajor(nx1, ny1, x2, e1 + delta_y, ix, iy, delta_x, delta_y)

\* the loop of the branch delta_x < delta_y
RECURSIVE BresenhamYMajor(_, _, _, _, _, _, _, _)
BresenhamYMajor(x1, y1, y2, error, ix, iy, delta_x, delta_y) ==
    IF y1 = y2 THEN << >>
    ELSE LET step == (error >= 0) /\ ((error # 0) \/ (iy > 0))
             e1 == IF step THEN error - delta_y ELSE error
             nx1 == IF step THEN x1 + ix ELSE x1
             ny1 == y1 + iy
         IN  << <<nx1, ny1>> >>
                \o BresenhamYMajor(nx1, ny1, y2, e1 + delta_x, ix, iy, delta_x, delta_y)

\* BresenhamSteps without the plot of the first endpoint before the loop
BresenhamSteps_NoFirst(x1, y1, x2, y2) ==
    LET ix == Sign(x2 - x1)
        delta_x == 2 * Abs(x2 - x1)
        iy == Sign(y2 - y1)
        delta_y == 2 * Abs(y2 - y1)
    IN  IF delta_x >= delta_y
        THEN BresenhamXMajor(x1, y1, x2, delta_y - (delta_x \div 2), ix, iy, delta_x, delta_y)
        ELSE BresenhamYMajor(x1, y1, y2, delta_x - (delta_y \div 2), ix, iy, delta_x, delta_y)

\* the sequence of pixels VectorWriter_bresenham hands to VectorWriter_plot
BresenhamSteps(x1, y1, x2, y2) ==
    LET ix == Sign(x2 - x1)
        delta_x == 2 * Abs(x2 - x1)
        iy == Sign(y2 - y1)
        delta_y == 2 * Abs(y2 - y1)
    IN  << <<x1, y1>> >> \o
        (IF delta_x >= delta_y
         THEN BresenhamXMajor(x1, y1, x2, delta_y - (delta_x \div 2), ix, iy, delta_x, delta_y)
         ELSE BresenhamYMajor(x1, y1, y2, delta_x - (delta_y \div 2), ix, iy, delta_x, delta_y))

VectorWriter_bresenham(d, x1, y1, x2, y2) ==
    LET steps == BresenhamSteps(x1, y1, x2, y2)
    IN  UNION { VectorWriter_plot(d, steps[i][1], steps[i][2]) : i \in 1..Len(steps) }

\* the geographic-to-pixel conversion written out in burnPoint, burnLine and
\* drawLabel: the double quotient converted to int
\* PixelX with the quotient rounded to the nearest int
PixelX_Round(d, dx) == RRound(RDiv(RInt(dx - ExtMinX(d)), d.dMetersPerPix))

PixelX(d, dx) == RTrunc(RDiv(RInt(dx - ExtMinX(d)), d.dMetersPerPix))

\* PixelY with the quotient floored
PixelY_Floor(d, dy) == RFloor(RDiv(RInt(ExtMaxY(d) - dy), d.dMetersPerPix))

PixelY(d, dy) == RTrunc(RDiv(RInt(ExtMaxY(d) - dy), d.dMetersPerPix))

\* VectorWriter_burnPoint with both loops running to nx + h, ny + h inclusive
VectorWriter_burnPoint_Inclusive(d, dx, dy) ==
    LET nx == PixelX(d, dx)
        ny == PixelY(d, dy)
        h == d.nHalfCrossSize
    IN  IF h = 1 THEN VectorWriter_plot(d, nx, ny)
        ELSE IF h > 1
        THEN UNION { VectorWriter_plot(d, x, ny) : x \in (nx - h)..(nx + h) }
               \cup UNION { VectorWriter_plot(d, nx, y) : y \in (ny - h)..(ny + h) }
        ELSE { }

VectorWriter_burnPoint(d, dx, dy) ==
    LET nx == PixelX(d, dx)
        ny == PixelY(d, dy)
        h == d.nHalfCrossSize
    IN  IF h = 1 THEN VectorWriter_plot(d, nx, ny)
        ELSE IF h > 1
        THEN UNION { VectorWriter_plot(d, x, ny) : x \in (nx - h)..(nx + h - 1) }
               \cup UNION { VectorWriter_plot(d, nx, y) : y \in (ny - h)..(ny + h - 1) }
        ELSE { }

VectorWriter_burnLine(d, dx1, dy1, dx2, dy2) ==
    VectorWriter_bresenham(d, PixelX(d, dx1), PixelY(d, dy1), PixelX(d, dx2), PixelY(d, dy2))

(***************************************************************************)
(* The decoder's handlers.  m is the readable memory, p the cursor.  Each  *)
(* handler yields the cursor it returns (p), the end of the highest read   *)
(* it made or attempted (hi), whether a read left the mapped memory        *)
(* (crash) and the cells it burned; the ring handler also yields the       *)
(* accumulator it leaves behind.                                           *)
(***************************************************************************)
CanRead(m, p, n) == (p >= 0) /\ (p + n <= Len(m))

ReadU32(m, p) == U32(Bytes(m, p, SizeofU32))

ReadDouble(m, p) == DoubleVal(Bytes(m, p, SizeofDouble))

\* the bytes of one coordinate: x and y are read, a third ordinate is stepped over
CoordRead == 2 * SizeofDouble

CoordSize(hasz) == CoordRead + (IF hasz = 1 THEN SizeofDouble ELSE 0)

Crashed(p, hi, cells) == [p |-> p, hi |-> hi, crash |-> TRUE, cells |-> cells]

Returned(p, hi, cells) == [p |-> p, hi |-> hi, crash |-> FALSE, cells |-> cells]

VectorWriter_processPoint(d, m, p, hasz) ==
    IF ~CanRead(m, p, CoordRead) THEN Crashed(p, p + CoordRead, { })
    ELSE LET x == ReadDouble(m, p)
             y == ReadDouble(m, p + SizeofDouble)
         IN  Returned(p + CoordSize(hasz), p + CoordRead, VectorWriter_burnPoint(d, x, y))

\* LineStringLoop without "set up for next one": every segment starts at the
\* first vertex
RECURSIVE LineStringLoop_Fan(_, _, _, _, _, _, _, _, _)
LineStringLoop_Fan(d, m, p, hasz, n, nPoints, dx1, dy1, cells) ==
    IF ~(n < nPoints) THEN Returned(p, p, cells)
    ELSE IF ~CanRead(m, p, CoordRead) THEN Crashed(p, p + CoordRead, cells)
    ELSE LET dx2 == ReadDouble(m, p)
             dy2 == ReadDouble(m, p + SizeofDouble)
         IN  LineStringLoop_Fan(d, m, p + CoordSize(hasz), hasz, n + 1, nPoints, dx1, dy1,
                                cells \cup VectorWriter_burnLine(d, dx1, dy1, dx2, dy2))

\* the loop for( n = 1; n < nPoints; n++ ) of processLineString
RECURSIVE LineStringLoop(_, _, _, _, _, _, _, _, _)
LineStringLoop(d, m, p, hasz, n, nPoints, dx1, dy1, cells) ==
    IF ~(n < nPoints) THEN Returned(p, p, cells)
    ELSE IF ~CanRead(m, p, CoordRead) THEN Crashed(p, p + CoordRead, cells)
    ELSE LET dx2 == ReadDouble(m, p)
             dy2 == ReadDouble(m, p + SizeofDouble)
         IN  LineStringLoop(d, m, p + CoordSize(hasz), hasz, n + 1, nPoints, dx2, dy2,
                            cells \cup VectorWriter_burnLine(d, dx1, dy1, dx2, dy2))

\* SkipLineString without the third ordinate of 2.5D records
SkipLineString_NoZ(p1, nPoints, hasz) == p1 + nPoints * CoordRead

\* the skip path of processLineString: the cursor past the coordinates
SkipLineString(p1, nPoints, hasz) ==
    p1 + nPoints * CoordRead + (IF hasz = 1 THEN nPoints * SizeofDouble ELSE 0)

VectorWriter_processLineString(d, m, p, hasz) ==
    IF ~CanRead(m, p, SizeofU32) THEN Crashed(p, p + SizeofU32, { })
    ELSE LET nPoints == ReadU32(m, p)
             p1 == p + SizeofU32
         IN  IF nPoints > 0
             THEN IF d.nLineWidth > 0
                  THEN IF ~CanRead(m, p1, CoordRead) THEN Crashed(p1, p1 + CoordRead, { })
                       ELSE LET r == LineStringLoop(d, m, p1 + CoordSize(hasz), hasz, 1, nPoints,
                                                    ReadDouble(m, p1),
                                                    ReadDouble(m, p1 + SizeofDouble), { })
                            IN  [r EXCEPT !.hi = Max(r.hi, p1 + CoordRead)]
                  ELSE Returned(SkipLineString(p1, nPoints, hasz), p1, { })
             ELSE Returned(p1, p1, { })

\* The ring accumulator: the linked list of slabs (each the sequence of its
\* corners <<x, y>>) with the tracked Y range.
Accumulator(d) == [slabs |-> d.pFirstSlab, dMinY |-> d.dMinY, dMaxY |-> d.dMaxY]

\* pSlab->pPolyX[k] = x; pSlab->pPolyY[k] = y; nPolyCorners++ on the last slab,
\* then the two range tests on dy2
AddCorner(acc, x, y) ==
    LET k == Len(acc.slabs)
    IN  [slabs |-> [acc.slabs EXCEPT ![k] = Append(@, <<x, y>>)],
         dMinY |-> IF y < acc.dMinY THEN y ELSE acc.dMinY,
         dMaxY |-> IF y > acc.dMaxY THEN y ELSE acc.dMaxY]

\* a new slab holding the ring's first point, appended to the list
AddSlab(acc, x, y) ==
    IF acc.slabs = << >>
    THEN [slabs |-> << << <<x, y>> >> >>, dMinY |-> y, dMaxY |-> y]
    ELSE [acc EXCEPT !.slabs = Append(@, << <<x, y>> >>)]

\* the loop for( n = 1; n < nPoints; n++ ) of processLinearRing
RECURSIVE LinearRingLoop(_, _, _, _, _, _, _, _, _, _, _)
LinearRingLoop(d, m, p, hasz, n, nPoints, dx1, dy1, bCornerAllocationOK, cells, acc) ==
    IF ~(n < nPoints)
    THEN [p |-> p, hi |-> p, crash |-> FALSE, cells |-> cells, acc |-> acc,
          dx1 |-> dx1, dy1 |-> dy1]
    ELSE IF ~CanRead(m, p, CoordRead)
    THEN [p |-> p, hi |-> p + CoordRead, crash |-> TRUE, cells |-> cells, acc |-> acc,
          dx1 |-> dx1, dy1 |-> dy1]
    ELSE LET dx2 == ReadDouble(m, p)
             dy2 == ReadDouble(m, p + SizeofDouble)
         IN  LinearRingLoop(d, m, p + CoordSize(hasz), hasz, n + 1, nPoints, dx2, dy2,
                 bCornerAllocationOK,
                 IF d.nLineWidth > 0
                 THEN cells \cup VectorWriter_burnLine(d, dx1, dy1, dx2, dy2)
                 ELSE cells,
                 IF (d.bFill # 0) /\ bCornerAllocationOK
                 THEN AddCorner(acc, dx2, dy2)
                 ELSE acc)

\* CloseRing that leaves the ring open
CloseRing_Open(d, dx1, dy1, dFirstX, dFirstY) == { }

\* close it: the edge from the last vertex read back to the first
CloseRing(d, dx1, dy1, dFirstX, dFirstY) ==
    IF d.nLineWidth > 0 THEN VectorWriter_burnLine(d, dx1, dy1, dFirstX, dFirstY) ELSE { }

\* The outcomes of the three mallocs of processLinearRing: all succeed
\* ("ok"), one of the coordinate arrays fails ("arrays"), or the slab itself
\* fails ("slab"), in which case pSlab->pPolyX = ... stores through NULL.
AllocOutcomes == {"ok", "arrays", "slab"}

VectorWriter_processLinearRing(d, m, p, hasz, alloc) ==
    LET acc0 == Accumulator(d)
        none(q, h, c) == [p |-> q, hi |-> h, crash |-> c, cells |-> { }, acc |-> acc0,
                          allocated |-> FALSE]
    IN  IF ~CanRead(m, p, SizeofU32) THEN none(p, p + SizeofU32, TRUE)
        ELSE LET nPoints == ReadU32(m, p)
                 p1 == p + SizeofU32
             IN  IF ~(nPoints > 0) THEN none(p1, p1, FALSE)
                 ELSE IF ~CanRead(m, p1, CoordRead) THEN none(p1, p1 + CoordRead, TRUE)
                 ELSE IF (d.bFill # 0) /\ (alloc = "slab")
                 THEN [none(p1 + CoordSize(hasz), p1 + CoordRead, TRUE)
                          EXCEPT !.allocated = TRUE]
                 ELSE LET dFirstX == ReadDouble(m, p1)
                          dFirstY == ReadDouble(m, p1 + SizeofDouble)
                          bCornerAllocationOK == (d.bFill # 0) /\ (alloc = "ok")
                          acc1 == IF bCornerAllocationOK
                                  THEN AddSlab(acc0, dFirstX, dFirstY)
                                  ELSE acc0
                          r == LinearRingLoop(d, m, p1 + CoordSize(hasz), hasz, 1, nPoints,
                                              dFirstX, dFirstY, bCornerAllocationOK, { }, acc1)
                      IN  [p |-> r.p,
                           hi |-> Max(r.hi, p1 + CoordRead),
                           crash |-> r.crash,
                           cells |-> IF ~r.crash
                                     THEN r.cells \cup CloseRing(d, r.dx1, r.dy1, dFirstX, dFirstY)
                                     ELSE r.cells,
                           acc |-> r.acc,
                           allocated |-> (d.bFill # 0)]

(***************************************************************************)
(* The scanline fill.                                                      *)
(***************************************************************************)
RECURSIVE TotalPolycorners(_)
TotalPolycorners(slabs) ==
    IF slabs = << >> THEN 0 ELSE Len(Head(slabs)) + TotalPolycorners(Tail(slabs))

\* pixelY: the geographic Y of the centre of canvas row ny
RowCentreY(d, ny) == RSub(RInt(ExtMaxY(d)), RMul(Rat(2 * ny + 1, 2), d.dMetersPerPix))

\* the test of one edge (corner i, previous corner j) against the row
EdgeCrosses(yi, yj, pixelY) ==
    \/ RLt(RInt(yi), pixelY) /\ RLe(pixelY, RInt(yj))
    \/ RLt(RInt(yj), pixelY) /\ RLe(pixelY, RInt(yi))

\* the X at which the edge meets the row
EdgeNodeX(ci, cj, pixelY) ==
    RAdd(RInt(ci[1]),
         RMul(RDiv(RSub(pixelY, RInt(ci[2])), RInt(cj[2] - ci[2])), RInt(cj[1] - ci[1])))

\* SlabNodes without the edge from the last corner to the first
RECURSIVE SlabNodes_Unclosed(_, _, _)
SlabNodes_Unclosed(slab, pixelY, i) ==
    IF i > Len(slab) THEN << >>
    ELSE LET j == IF i = 1 THEN 1 ELSE i - 1
         IN  (IF EdgeCrosses(slab[i][2], slab[j][2], pixelY)
              THEN << EdgeNodeX(slab[i], slab[j], pixelY) >>
              ELSE << >>) \o SlabNodes_Unclosed(slab, pixelY, i + 1)

\* the nodes of one slab, corner by corner (i is 1-based; j starts at the last)
RECURSIVE SlabNodes(_, _, _)
SlabNodes(slab, pixelY, i) ==
    IF i > Len(slab) THEN << >>
    ELSE LET j == IF i = 1 THEN Len(slab) ELSE i - 1
         IN  (IF EdgeCrosses(slab[i][2], slab[j][2], pixelY)
              THEN << EdgeNodeX(slab[i], slab[j], pixelY) >>
              ELSE << >>) \o SlabNodes(slab, pixelY, i + 1)

\* RowNodes that stops after the first slab
RowNodes_FirstSlab(slabs, pixelY) ==
    IF slabs = << >> THEN << >> ELSE SlabNodes(slabs[1], pixelY, 1)

\* nodeX[0 .. nodes-1] as built for one row, before sorting
RowNodes(slabs, pixelY) == Concat([k \in 1..Len(slabs) |-> SlabNodes(slabs[k], pixelY, 1)])

\* SortNodes that leaves the nodes in the order the slabs gave them
SortNodes_Unsorted(nodeX, i) == nodeX

\* the bubble sort of fillPoly (i is the C index)
RECURSIVE SortNodes(_, _)
SortNodes(nodeX, i) ==
    IF ~(i < Len(nodeX) - 1) THEN nodeX
    ELSE IF RLt(nodeX[i + 2], nodeX[i + 1])
    THEN SortNodes([nodeX EXCEPT ![i + 1] = nodeX[i + 2], ![i + 2] = nodeX[i + 1]],
                   IF i # 0 THEN i - 1 ELSE i)
    ELSE SortNodes(nodeX, i + 1)

\* for( pixelX = nodeX[i]; pixelX < nodeX[i+1]; pixelX += dMetersPerPix )
RECURSIVE FillRun(_, _, _, _)
FillRun(d, ny, pixelX, endX) ==
    IF ~RLt(pixelX, endX) THEN { }
    ELSE LET nx == RRound(RDiv(RSub(pixelX, RInt(ExtMinX(d))), d.dMetersPerPix))
         IN  (IF (nx >= 0) /\ (nx < d.nXSize) THEN { <<nx, ny>> } ELSE { })
                \cup FillRun(d, ny, RAdd(pixelX, d.dMetersPerPix), endX)

\* The loop over node pairs (i is the C index).  The number of nodes of a row
\* is even, so nodeX[i+1] is a node of this row whenever nodeX[i] is.
RECURSIVE FillPairs(_, _, _, _)
FillPairs(d, ny, nodeX, i) ==
    IF ~(i + 1 < Len(nodeX)) THEN { }
    ELSE IF RLe(RInt(ExtMaxX(d)), nodeX[i + 1]) THEN { }
    ELSE (IF RLt(RInt(ExtMinX(d)), nodeX[i + 2])
          THEN LET a == IF RLt(nodeX[i + 1], RInt(ExtMinX(d)))
                        THEN RInt(ExtMinX(d)) ELSE nodeX[i + 1]
                   b == IF RLt(RInt(ExtMaxX(d)), nodeX[i + 2])
                        THEN RInt(ExtMaxX(d)) ELSE nodeX[i + 2]
               IN  FillRun(d, ny, a, b)
          ELSE { }) \cup FillPairs(d, ny, nodeX, i + 2)

FillRow(d, ny) ==
    LET pixelY == RowCentreY(d, ny)
    IN  IF RLt(pixelY, RInt(d.dMinY)) \/ RLt(RInt(d.dMaxY), pixelY) THEN { }
        ELSE FillPairs(d, ny, SortNodes(RowNodes(d.pFirstSlab, pixelY), 0), 0)

\* nodeOK: whether the malloc of nodeX succeeded
fillPoly(d, nodeOK) ==
    IF TotalPolycorners(d.pFirstSlab) < 2 THEN { }
    ELSE IF ~nodeOK THEN { }
    ELSE UNION { FillRow(d, ny) : ny \in 0..(d.nYSize - 1) }

\* the outcomes of the malloc of nodeX: it is only reached with two corners or more
NodeAllocOutcomes(d) ==
    IF TotalPolycorners(d.pFirstSlab) < 2 THEN {TRUE} ELSE BOOLEAN

(***************************************************************************)
(* The context.  dMinY and dMaxY are left unset by VectorWriter_create;    *)
(* they are written (first slab) before any read, so the value they start  *)
(* with is never observed.                                                 *)
(***************************************************************************)
\* VectorWriter_create taking the width for the height and the height for the width
VectorWriter_create_Transposed(dims, pExtents, nLineWidth, bFill, nHalfCrossSize) ==
    [nLineWidth |-> IF nLineWidth < 0 THEN 0 ELSE nLineWidth,
     pExtents |-> pExtents,
     nYSize |-> dims[2],
     nXSize |-> dims[1],
     dMetersPerPix |-> Rat(pExtents[3] - pExtents[1], dims[1]),
     bFill |-> bFill,
     nHalfCrossSize |-> nHalfCrossSize,
     pFirstSlab |-> << >>,
     dMinY |-> 0,
     dMaxY |-> 0]

VectorWriter_create(dims, pExtents, nLineWidth, bFill, nHalfCrossSize) ==
    [nLineWidth |-> IF nLineWidth < 0 THEN 0 ELSE nLineWidth,
     pExtents |-> pExtents,
     nYSize |-> dims[1],
     nXSize |-> dims[2],
     dMetersPerPix |-> Rat(pExtents[3] - pExtents[1], dims[2]),
     bFill |-> bFill,
     nHalfCrossSize |-> nHalfCrossSize,
     pFirstSlab |-> << >>,
     dMinY |-> 0,
     dMaxY |-> 0]

(***************************************************************************)
(* The label renderer.  The glyph table (tuifont.h) is a small stand-in:   *)
(* three glyphs of FONT_HEIGHT rows, each pixel 0 or 1.  A string is the   *)
(* sequence of its character codes.                                        *)
(***************************************************************************)
FONT_MIN_ASCII == 33
FONT_MAX_ASCII == 35
FONT_HEIGHT == 3
FONT_ASCENT == 2
FONT_MAX_LEFT_BEARING == 1
FONT_SPACE_ADVANCE == 2
SpaceChar == 32

\* fontInfo[chIdx] (C index chIdx is TLA+ index chIdx + 1)
fontInfo ==
    << [left |-> 0, adv |-> 2, right |-> 0],
       [left |-> 1, adv |-> 2, right |-> 1],
       [left |-> 0, adv |-> 1, right |-> 1] >>

\* fontData[chIdx][read_y][read_x]
fontData ==
    << << <<0, 1, 1, 0>>, <<0, 1, 0, 0>>, <<0, 1, 1, 0>> >>,
       << <<1, 1, 1, 1>>, <<0, 1, 1, 0>>, <<1, 0, 0, 1>> >>,
       << <<0, 1, 1, 0>>, <<0, 0, 1, 0>>, <<0, 1, 0, 0>> >> >>

\* VectorWriter_drawChar that draws a glyph whole or not at all
VectorWriter_drawChar_WholeGlyph(d, chIdx, nx, ny) ==
    LET info == fontInfo[chIdx + 1]
        read_start_x == FONT_MAX_LEFT_BEARING - info.left
        read_end_x == read_start_x + info.left + info.adv + info.right
        set == { rc \in (read_start_x..(read_end_x - 1)) \X (0..(FONT_HEIGHT - 1)) :
                   /\ nx - info.left + (rc[1] - read_start_x) >= 0
                   /\ ny - FONT_ASCENT + rc[2] >= 0
                   /\ fontData[chIdx + 1][rc[2] + 1][rc[1] + 1] # 0 }
        written == { << nx - info.left + (rc[1] - read_start_x), ny - FONT_ASCENT + rc[2] >> : rc \in set }
    IN  [cells |-> IF \A c \in written : (c[1] < d.nXSize) /\ (c[2] < d.nYSize) THEN written ELSE { },
         nx |-> nx + info.adv]

\* the cells a glyph is blitted into, and the pen position returned
VectorWriter_drawChar(d, chIdx, nx, ny) ==
    LET info == fontInfo[chIdx + 1]
        read_start_x == FONT_MAX_LEFT_BEARING - info.left
        read_end_x == read_start_x + info.left + info.adv + info.right
        written ==
            { << nx - info.left + (read_x - read_start_x), ny - FONT_ASCENT + read_y >> :
                << read_x, read_y >> \in
                    { rc \in (read_start_x..(read_end_x - 1)) \X (0..(FONT_HEIGHT - 1)) :
                        LET write_x == nx - info.left + (rc[1] - read_start_x)
                            write_y == ny - FONT_ASCENT + rc[2]
                        IN  /\ write_y < d.nYSize
                            /\ write_x < d.nXSize
                            /\ (write_x >= 0) /\ (write_y >= 0)
                            /\ fontData[chIdx + 1][rc[2] + 1][rc[1] + 1] # 0 } }
    IN  [cells |-> written, nx |-> nx + info.adv]

\* the loop over the characters of the label (idx is 1-based)
RECURSIVE LabelLoop(_, _, _, _, _, _)
LabelLoop(d, text, idx, nx, ny, cells) ==
    IF idx > Len(text) THEN [cells |-> cells, nx |-> nx]
    ELSE LET ch == text[idx]
         IN  IF ch = SpaceChar
             THEN LabelLoop(d, text, idx + 1, nx + FONT_SPACE_ADVANCE, ny, cells)
             ELSE IF (ch >= FONT_MIN_ASCII) /\ (ch <= FONT_MAX_ASCII)
             THEN LET r == VectorWriter_drawChar(d, ch - FONT_MIN_ASCII, nx, ny)
                  IN  IF r.nx >= d.nXSize
                      THEN [cells |-> cells \cup r.cells, nx |-> r.nx]
                      ELSE LabelLoop(d, text, idx + 1, r.nx, ny, cells \cup r.cells)
             ELSE LabelLoop(d, text, idx + 1, nx, ny, cells)

VectorWriter_drawLabel(d, dx, dy, text) ==
    LET nx == PixelX(d, dx)
        ny == PixelY(d, dy)
    IN  IF (nx >= d.nXSize) \/ ((ny - FONT_ASCENT) >= d.nYSize)
        THEN [cells |-> { }, nx |-> nx]
        ELSE LabelLoop(d, text, 1, nx, ny, { })

(***************************************************************************)
(* The calls the model makes: the inputs Init draws from.                  *)
(***************************************************************************)
\* for burning points as a cross (the default of the halfCrossSize argument)
HALF_CROSS_SIZE == 5

\* a canvas with its extent: resolution 1, resolution 2 and resolution 2/3
View(nXSize, nYSize, ext) == [nXSize |-> nXSize, nYSize |-> nYSize, adExtents |-> ext]

UnitView == View(MaxCoord, MaxCoord - 1, << 0, MaxCoord - 1, MaxCoord, 0 >>)

ValidViews ==
    { UnitView,
      View(2, 2, << 0, 4, 4, 0 >>),
      View(3, 2, << 1, 3, 3, 0 >>) }

\* parameters the specification calls invalid: an extent whose resolution is
\* negative, a canvas without rows, a negative canvas dimension
BackwardView == View(MaxCoord, MaxCoord - 1, << MaxCoord, MaxCoord - 1, 0, 0 >>)

NoRowsView == View(MaxCoord, 0, << 0, MaxCoord - 1, MaxCoord, 0 >>)

NegativeView == View(-1, MaxCoord - 1, << 0, MaxCoord - 1, MaxCoord, 0 >>)

InvalidViews == { BackwardView, NoRowsView, NegativeView }

InvalidParameters(a) ==
    \/ a.nXSize <= 0
    \/ a.nYSize <= 0
    \/ a.adExtents[3] - a.adExtents[1] <= 0
    \/ (a.api = "fillVertices") /\ (Len(a.x) # Len(a.y))

Widths == (-1)..MaxLineWidth

Crosses == 0..MaxHalfCross

\* the vertices records are built from: inside, on and outside the canvas
Coords == (-2)..(MaxCoord + 1)

Anchors == { <<0, 0>>, <<1, 2>>, <<MaxCoord + 1, MaxCoord>> }

PointRecords == { Pt(0, x, y) : x \in Coords, y \in Coords }

LineRecords ==
    { Line(0, << a, << x, y >> >>) : a \in Anchors, x \in Coords, y \in Coords }
    \cup { Line(0, << << x, y >>, a, b >>) : a \in Anchors, b \in Anchors, x \in {-1, 3}, y \in {-1, 2} }

RingRecords ==
    { Poly(0, << << a, << x, 1 >>, << 2, y >> >> >>) : a \in Anchors, x \in {-1, 3, MaxCoord}, y \in {0, 3} }
    \cup { Poly(0, << << a, << x, 1 >>, << 2, y >>, a >> >>) : a \in Anchors, x \in {-1, 3}, y \in {0, 3} }

Triangle == << <<0, 0>>, <<MaxCoord, 0>>, <<0, MaxCoord - 1>> >>

Square == << <<0, 0>>, <<0, 3>>, <<3, 3>>, <<3, 0>>, <<0, 0>> >>

Hole == << <<1, 1>>, <<2, 1>>, <<2, 2>>, <<1, 2>>, <<1, 1>> >>

\* one record or more of every kind the decoder dispatches on
Samples(z) ==
    { Pt(z, 1, 2),
      Line(z, << >>),
      Line(z, << <<1, 1>> >>),
      Line(z, << <<0, 3>>, <<3, 1>>, <<1, -1>> >>),
      Poly(z, << >>),
      Poly(z, << << >> >>),
      Poly(z, << Triangle >>),
      Poly(z, << Square, Hole >>),
      Multi("MultiPoint", z, << Pt(z, 0, 3), Pt(z, 3, 1) >>),
      Multi("MultiLineString", z, << Line(z, << <<0, 0>>, <<2, 3>> >>), Line(z, << <<3, 0>>, <<3, 3>> >>) >>),
      Multi("MultiPolygon", z, << Poly(z, << Triangle >>), Poly(z, << Hole, << <<3, 3>> >> >>) >>),
      Multi("GeometryCollection", z, << >>),
      Multi("GeometryCollection", z,
            << Pt(z, 2, 2), Line(0, << <<0, 1>>, <<3, 1>> >>),
               Multi("GeometryCollection", z, << Poly(z, << Triangle >>), NoGeom >>) >>),
      NoGeom }

\* records with a member or a tag the decoder does not know
OtherSamples ==
    { Other(0, 1, 2),
      Other(1, 1, 2),
      Multi("GeometryCollection", 0, << Pt(0, 2, 2), Other(0, 1, 1) >>),
      Multi("GeometryCollection", 0, << Other(0, 1, 2), Pt(0, 3, 1) >>),
      Multi("GeometryCollection", 1, << Poly(0, << Triangle >>), Other(1, 3, 3) >>) }

\* The arguments of one call.  geom is the record the buffer was encoded
\* from and cut the number of its bytes the buffer lacks; the program sees
\* neither, only the nWKBSize bytes.  x, y are the vertex arrays of
\* fillVertices, or one-element sequences holding the anchor of printText.
Call(api, g, cut, tail, v, nLineWidth, bFill, nHalfCrossSize, x, y, dMinY, dMaxY, text) ==
    [api |-> api, geom |-> g, cut |-> cut, nWKBSize |-> Len(Encode(g)) - cut, tail |-> tail,
     nXSize |-> v.nXSize, nYSize |-> v.nYSize, adExtents |-> v.adExtents,
     nLineWidth |-> nLineWidth, bFill |-> bFill, nHalfCrossSize |-> nHalfCrossSize,
     x |-> x, y |-> y, dMinY |-> dMinY, dMaxY |-> dMaxY, text |-> text, features |-> << >>]

WKBCall(g, cut, tail, v, nLineWidth, bFill, nHalfCrossSize) ==
    Call("rasterizeWKB", g, cut, tail, v, nLineWidth, bFill, nHalfCrossSize,
         << >>, << >>, 0, 0, << >>)

PointCalls ==
    { WKBCall(g, 0, 0, v, w, 0, h) :
        g \in PointRecords, v \in ValidViews, w \in Widths, h \in Crosses }

LineCalls ==
    { WKBCall(g, 0, 0, v, w, 0, HALF_CROSS_SIZE) :
        g \in LineRecords \cup RingRecords, v \in ValidViews, w \in 0..2 }

SampleCalls ==
    { WKBCall(g, 0, 0, v, w, f, h) :
        g \in Samples(0) \cup Samples(1) \cup OtherSamples,
        v \in ValidViews, w \in Widths, f \in {0, 1}, h \in {1, 2} }

\* a triangle that starts at its highest vertex, as the second ring behind a
\* ring that lies lower
Peak == << <<0, 3>>, <<3, 0>>, <<0, 0>> >>

PeakCalls ==
    { WKBCall(Poly(0, << Hole, Peak >>), 0, 0, v, w, 1, 1) : v \in ValidViews, w \in {0, 1} }

\* records with a third and a fourth ordinate per vertex (ZM)
ExtendedCalls ==
    { WKBCall(g, 0, tail, UnitView, w, f, 1) :
        g \in { Pt(2, 1, 2),
                Line(2, << <<0, 3>>, <<3, 1>> >>),
                Poly(2, << Triangle >>),
                Multi("MultiPoint", 2, << Pt(2, 0, 3), Pt(2, 3, 1) >>) },
        tail \in {0, 1}, w \in {0, 1}, f \in {0, 1} }

\* buffers shorter than their record: cut bytes are missing at the end, and
\* the memory behind the buffer holds TailLen bytes of value tail
TruncatedCalls ==
    { WKBCall(g, cut, tail, UnitView, w, f, 2) :
        g \in { s \in Samples(0) \cup Samples(1) : Len(Encode(s)) > 9 },
        cut \in {1, 9}, tail \in {0, 1}, w \in {0, 1}, f \in {0, 1} }

\* the scanline fill is left out for these: with a resolution <= 0 its loop
\* pixelX += dMetersPerPix does not advance to the right
InvalidCalls ==
    { WKBCall(g, 0, 0, v, w, 0, 2) : g \in Samples(0), v \in InvalidViews, w \in {0, 1} }

\* the square of side 10 and its concentric hole of side 4, on canvases of
\* 10 by 10, 5 by 5 and 20 by 20 pixels over the extent (0, 10, 10, 0)
BigSquare == << <<0, 10>>, <<10, 10>>, <<10, 0>>, <<0, 0>> >>

InnerSquare == << <<3, 7>>, <<7, 7>>, <<7, 3>>, <<3, 3>> >>

SquareViews == { View(n, n, << 0, 10, 10, 0 >>) : n \in {5, 10, 20} }

SquareCalls ==
    { WKBCall(g, 0, 0, v, w, 1, 1) :
        g \in { Poly(0, << BigSquare >>), Poly(0, << BigSquare, InnerSquare >>),
                Poly(1, << BigSquare, InnerSquare >>) },
        v \in SquareViews, w \in {0, 1} }

VertexArrays ==
    { << << >>, << >> >>,
      << <<0, MaxCoord, 0>>, <<0, 0, MaxCoord - 1>> >>,
      << <<0, 0, 3, 3>>, <<0, 3, 3, 0>> >>,
      << <<1, 3, 5, -1>>, <<-1, 4, 1, 2>> >>,
      << <<0, 3, 3>>, <<0, 3>> >>,
      << <<1>>, <<1, 2, 3>> >> }

FillVerticesCalls ==
    { Call("fillVertices", NoGeom, 0, 0, v, 1, 1, 1, xy[1], xy[2], r[1], r[2], << >>) :
        v \in ValidViews \cup { NegativeView, NoRowsView }, xy \in VertexArrays,
        r \in { <<0, 3>>, <<-1, 4>>, <<1, 2>> } }

\* strings of supported characters, spaces and one unsupported character
Texts ==
    { << >>, << 33 >>, << 34, 35 >>, << 33, 32, 34 >>, << 35, 36, 33, 34 >>, << 32, 32, 35 >> }

PrintTextCalls ==
    { Call("printText", NoGeom, 0, 0, v, 1, 1, 1, << ax >>, << ay >>, 0, 0, t) :
        v \in ValidViews \cup { NegativeView }, t \in Texts,
        ax \in {-2, -1, 0, 1, 3, MaxCoord + 1}, ay \in {-2, 0, 1, 3, MaxCoord + 1} }

\* a canvas wide enough for every string of Texts drawn from its left half
WideView == View(4 * MaxCoord, MaxCoord - 1, << 0, MaxCoord - 1, 4 * MaxCoord, 0 >>)

WidePrintTextCalls ==
    { Call("printText", NoGeom, 0, 0, WideView, 1, 1, 1, << ax >>, << 1 >>, 0, 0, t) :
        t \in Texts, ax \in {0, 3} }

TextLengthCalls ==
    { Call("textLength", NoGeom, 0, 0, UnitView, 1, 1, 1, << >>, << >>, 0, 0, t) : t \in Texts }

\* the geometries of the features of a layer, in the order they are read
Layers ==
    { << >>,
      << Poly(0, << Triangle >>) >>,
      << Poly(0, << Square, Hole >>), Pt(0, 1, 2) >>,
      << Poly(0, << Triangle >>), Poly(1, << Hole >>) >>,
      << Poly(0, << Hole >>), Multi("MultiPolygon", 0, << Poly(0, << Triangle >>) >>) >>,
      << Line(0, << <<0, 3>>, <<3, 1>> >>), Poly(0, << << <<3, 3>> >> >>), Poly(0, << Hole >>) >> }

LayerCalls ==
    { [Call("rasterizeLayer", NoGeom, 0, 0, v, w, f, 2, << >>, << >>, 0, 0, << >>)
          EXCEPT !.features = l] :
        l \in Layers, v \in ValidViews, w \in {0, 1}, f \in {0, 1} }

Calls ==
    PointCalls \cup LineCalls \cup SampleCalls \cup TruncatedCalls
        \cup InvalidCalls \cup FillVerticesCalls \cup PrintTextCalls \cup SquareCalls
        \cup WidePrintTextCalls \cup TextLengthCalls \cup LayerCalls \cup ExtendedCalls
        \cup PeakCalls

\* the memory behind the buffer pointer
Memory(a) ==
    IF a.api = "rasterizeWKB"
    THEN SubSeq(Encode(a.geom), 1, a.nWKBSize) \o [i \in 1..TailLen |-> a.tail]
    ELSE << >>

(***************************************************************************)
(* State.                                                                  *)
(***************************************************************************)
VARIABLES
    args,         \* the arguments of the call
    mem,          \* the bytes readable through the buffer pointer
    pc,           \* "call", "next", "decode", "fill", "return", "done"
    pData,        \* the VectorWriterData
    pArray,       \* the canvas: the cells that hold 1
    pWKB,         \* the decoder's cursor
    stack,        \* the decoder's pending loops, innermost last
    nReadEnd,     \* one past the highest byte offset the decoder has read
    allocFailed,  \* a malloc of the accumulator or of nodeX returned NULL
    result,       \* "none", "array" (pOutArray), "length" (PyLong), "error" (NULL, exception set), "segv"
    nxEnd,        \* the pen of drawLabel when it returns; the sum of textLength
    hFeature      \* rasterizeLayer: how many features OGR_L_GetNextFeature has handed out

vars == << args, mem, pc, pData, pArray, pWKB, stack, nReadEnd, allocFailed, result, nxEnd, hFeature >>

\* the value of pData before VectorWriter_create has run (nothing reads it)
NoContext == VectorWriter_create(<< 1, 1 >>, << 0, 0, 1, 0 >>, 0, 0, 0)

Frame(kind, left, hasz) == [kind |-> kind, left |-> left, hasz |-> hasz]

Init ==
    /\ args \in Calls
    /\ mem = Memory(args)
    /\ pc = "call"
    /\ pData = NoContext
    /\ pArray = { }
    /\ pWKB = 0
    /\ stack = << >>
    /\ nReadEnd = 0
    /\ allocFailed = FALSE
    /\ result = "none"
    /\ nxEnd = 0
    /\ hFeature = 0

(***************************************************************************)
(* The decoder as a machine.  A frame of stack is a loop of the C call     *)
(* stack with the members it still has to decode: "top" is the call of     *)
(* processWKB in processAll, "gc" the loop of processGeometryCollection,   *)
(* "poly", "mpoint", "mline", "mpoly" the loops of processPolygon,         *)
(* processMultiPoint, processMultiLineString and processMultiPolygon.      *)
(***************************************************************************)
Top == stack[Len(stack)]

\* READ_WKB_VAL(count, pWKB) at the head of a loop, which then starts
LoopHeader(m, q, kind, hasz) ==
    IF ~CanRead(m, q, SizeofU32)
    THEN [p |-> q, hi |-> q + SizeofU32, crash |-> TRUE, cells |-> { }, push |-> << >>]
    ELSE [p |-> q + SizeofU32, hi |-> q + SizeofU32, crash |-> FALSE, cells |-> { },
          push |-> << Frame(kind, ReadU32(m, q), hasz) >>]

NoLoop(r) == [p |-> r.p, hi |-> r.hi, crash |-> r.crash, cells |-> r.cells, push |-> << >>]

\* UnknownWKBCode that decodes the bytes behind the tag as a point
UnknownWKBCode_AsPoint(d, m, q) == NoLoop(VectorWriter_processPoint(d, m, q, 0))

\* the default branch of the switch: "Unknown WKB code", the cursor stays
\* behind the tag
UnknownWKBCode(d, m, q) == NoLoop(Returned(q, q, { }))

\* the byte order mark is stepped over, the tag read, and the switch taken
ProcessWKBCall(d, m, p) ==
    IF ~CanRead(m, p + 1, SizeofU32)
    THEN NoLoop(Crashed(p + 1, p + 1 + SizeofU32, { }))
    ELSE LET nType == Bytes(m, p + 1, SizeofU32)
             q == p + 1 + SizeofU32
             r == CASE nType = wkbPoint -> NoLoop(VectorWriter_processPoint(d, m, q, 0))
                    [] nType = wkbPoint25D -> NoLoop(VectorWriter_processPoint(d, m, q, 1))
                    [] nType = wkbLineString -> NoLoop(VectorWriter_processLineString(d, m, q, 0))
                    [] nType = wkbLineString25D -> NoLoop(VectorWriter_processLineString(d, m, q, 1))
                    [] nType = wkbPolygon -> LoopHeader(m, q, "poly", 0)
                    [] nType = wkbPolygon25D -> LoopHeader(m, q, "poly", 1)
                    [] nType = wkbMultiPoint -> LoopHeader(m, q, "mpoint", 0)
                    [] nType = wkbMultiPoint25D -> LoopHeader(m, q, "mpoint", 1)
                    [] nType = wkbMultiLineString -> LoopHeader(m, q, "mline", 0)
                    [] nType = wkbMultiLineString25D -> LoopHeader(m, q, "mline", 1)
                    [] nType = wkbMultiPolygon -> LoopHeader(m, q, "mpoly", 0)
                    [] nType = wkbMultiPolygon25D -> LoopHeader(m, q, "mpoly", 1)
                    [] nType \in {wkbGeometryCollection, wkbGeometryCollection25D} ->
                           LoopHeader(m, q, "gc", 0)
                    [] nType = wkbNone -> NoLoop(Returned(q, q, { }))
                    [] OTHER -> UnknownWKBCode(d, m, q)
         IN  [r EXCEPT !.hi = Max(r.hi, q)]

\* one member of the innermost loop is done: r is what its handler yielded
MemberDone(r) ==
    /\ pWKB' = r.p
    /\ nReadEnd' = Max(nReadEnd, r.hi)
    /\ pArray' = pArray \cup r.cells
    /\ IF r.crash
       THEN /\ pc' = "done"
            /\ result' = "segv"
            /\ stack' = stack
       ELSE /\ pc' = pc
            /\ result' = result
            /\ stack' = [stack EXCEPT ![Len(stack)].left = @ - 1] \o r.push

InLoop(kinds) == (pc = "decode") /\ (stack # << >>) /\ (Top.kind \in kinds) /\ (Top.left > 0)

\* vectorrasterizer_rasterizeWKB up to the call of processAll: the output
\* array is created (PyArray_ZEROS fails on a negative dimension) and the
\* context set up
vectorrasterizer_rasterizeWKB ==
    /\ pc = "call"
    /\ args.api = "rasterizeWKB"
    /\ IF (args.nXSize < 0) \/ (args.nYSize < 0)
       THEN /\ pc' = "done"
            /\ result' = "error"
            /\ UNCHANGED << pData, stack >>
       ELSE /\ pc' = "decode"
            /\ result' = result
            /\ pData' = VectorWriter_create(<< args.nYSize, args.nXSize >>, args.adExtents,
                                            args.nLineWidth, args.bFill, args.nHalfCrossSize)
            /\ stack' = << Frame("top", 1, 0) >>
    /\ UNCHANGED << args, mem, pArray, pWKB, nReadEnd, allocFailed, nxEnd, hFeature >>

\* a call of processWKB: by processAll, or for a member of a collection
VectorWriter_processWKB ==
    /\ InLoop({"top", "gc"})
    /\ MemberDone(ProcessWKBCall(pData, mem, pWKB))
    /\ UNCHANGED << args, mem, pData, allocFailed, nxEnd, hFeature >>

\* one ring of the loop of processPolygon
VectorWriter_processPolygon ==
    /\ InLoop({"poly"})
    /\ \E alloc \in (IF pData.bFill # 0 THEN AllocOutcomes ELSE {"ok"}) :
          LET r == VectorWriter_processLinearRing(pData, mem, pWKB, Top.hasz, alloc)
          IN  /\ MemberDone(NoLoop(r))
              /\ pData' = [pData EXCEPT !.pFirstSlab = r.acc.slabs,
                                        !.dMinY = r.acc.dMinY,
                                        !.dMaxY = r.acc.dMaxY]
              /\ allocFailed' = (allocFailed \/ (r.allocated /\ (alloc # "ok")))
    /\ UNCHANGED << args, mem, nxEnd, hFeature >>

\* the header of a member of a Multi* record: pWKB++; pWKB += sizeof(GUInt32)
MemberHeader == 1 + SizeofU32

\* one point of the loop of processMultiPoint
VectorWriter_processMultiPoint ==
    /\ InLoop({"mpoint"})
    /\ MemberDone(NoLoop(VectorWriter_processPoint(pData, mem, pWKB + MemberHeader, Top.hasz)))
    /\ UNCHANGED << args, mem, pData, allocFailed, nxEnd, hFeature >>

\* one line of the loop of processMultiLineString
VectorWriter_processMultiLineString ==
    /\ InLoop({"mline"})
    /\ MemberDone(NoLoop(VectorWriter_processLineString(pData, mem, pWKB + MemberHeader, Top.hasz)))
    /\ UNCHANGED << args, mem, pData, allocFailed, nxEnd, hFeature >>

\* one polygon of the loop of processMultiPolygon: its ring loop starts
VectorWriter_processMultiPolygon ==
    /\ InLoop({"mpoly"})
    /\ MemberDone(LoopHeader(mem, pWKB + MemberHeader, "poly", Top.hasz))
    /\ UNCHANGED << args, mem, pData, allocFailed, nxEnd, hFeature >>

\* a loop has no member left: its function returns pWKB to its caller; when
\* it is the call made by processAll, processAll goes on
LoopReturn ==
    /\ pc = "decode"
    /\ stack # << >>
    /\ Top.left = 0
    /\ stack' = SubSeq(stack, 1, Len(stack) - 1)
    /\ pc' = IF Len(stack) = 1 THEN "fill" ELSE pc
    /\ UNCHANGED << args, mem, pData, pArray, pWKB, nReadEnd, allocFailed, result, nxEnd, hFeature >>

\* VectorWriter_processAll that leaves the slabs in the list after the fill
VectorWriter_processAll_KeepsSlabs ==
    /\ pc = "fill"
    /\ IF (pData.bFill # 0) /\ (pData.pFirstSlab # << >>)
       THEN \E nodeOK \in NodeAllocOutcomes(pData) :
               /\ pArray' = pArray \cup fillPoly(pData, nodeOK)
               /\ allocFailed' = (allocFailed \/ ~nodeOK)
               /\ UNCHANGED pData
       ELSE UNCHANGED << pArray, pData, allocFailed >>
    /\ pc' = (IF args.api = "rasterizeLayer" THEN "next" ELSE "return")
    /\ UNCHANGED << args, mem, pWKB, stack, nReadEnd, result, nxEnd, hFeature >>

\* VectorWriter_processAll after processWKB has returned: the fill, then the
\* slabs are freed
VectorWriter_processAll ==
    /\ pc = "fill"
    /\ IF (pData.bFill # 0) /\ (pData.pFirstSlab # << >>)
       THEN \E nodeOK \in NodeAllocOutcomes(pData) :
               /\ pArray' = pArray \cup fillPoly(pData, nodeOK)
               /\ pData' = [pData EXCEPT !.pFirstSlab = << >>]
               /\ allocFailed' = (allocFailed \/ ~nodeOK)
       ELSE UNCHANGED << pArray, pData, allocFailed >>
    /\ pc' = (IF args.api = "rasterizeLayer" THEN "next" ELSE "return")
    /\ UNCHANGED << args, mem, pWKB, stack, nReadEnd, result, nxEnd, hFeature >>

\* the context is destroyed and pOutArray returned
ReturnArray ==
    /\ pc = "return"
    /\ pc' = "done"
    /\ result' = "array"
    /\ UNCHANGED << args, mem, pData, pArray, pWKB, stack, nReadEnd, allocFailed, nxEnd, hFeature >>

\* the corners fillVertices puts in its one slab
Corners(x, y) == [i \in 1..Len(x) |-> << x[i], y[i] >>]

vectorrasterizer_fillVertices ==
    /\ pc = "call"
    /\ args.api = "fillVertices"
    /\ IF (Len(args.x) # Len(args.y)) \/ (args.nXSize < 0) \/ (args.nYSize < 0)
       THEN /\ result' = "error"
            /\ UNCHANGED << pData, pArray, allocFailed >>
       ELSE LET d == [VectorWriter_create(<< args.nYSize, args.nXSize >>, args.adExtents, 1, 1, 1)
                         EXCEPT !.dMinY = args.dMinY,
                                !.dMaxY = args.dMaxY,
                                !.pFirstSlab = << Corners(args.x, args.y) >>]
            IN  \E nodeOK \in NodeAllocOutcomes(d) :
                   /\ pArray' = fillPoly(d, nodeOK)
                   /\ pData' = [d EXCEPT !.pFirstSlab = << >>]
                   /\ allocFailed' = ~nodeOK
                   /\ result' = "array"
    /\ pc' = "done"
    /\ UNCHANGED << args, mem, pWKB, stack, nReadEnd, nxEnd, hFeature >>

\* vectorrasterizer_printText: the array, the context, the label
vectorrasterizer_printText ==
    /\ pc = "call"
    /\ args.api = "printText"
    /\ IF (args.nXSize < 0) \/ (args.nYSize < 0)
       THEN /\ result' = "error"
            /\ UNCHANGED << pData, pArray, nxEnd >>
       ELSE LET d == VectorWriter_create(<< args.nYSize, args.nXSize >>, args.adExtents, 1, 1, 1)
                r == VectorWriter_drawLabel(d, args.x[1], args.y[1], args.text)
            IN  /\ pData' = d
                /\ pArray' = r.cells
                /\ nxEnd' = r.nx
                /\ result' = "array"
    /\ pc' = "done"
    /\ UNCHANGED << args, mem, pWKB, stack, nReadEnd, allocFailed, hFeature >>

\* What fontInfo[chIdx].adv yields in textLength, which tests neither for the
\* space nor for the supported range: an index outside the table reads
\* whatever lies beside it.
GarbageAdvances == { 0, FONT_SPACE_ADVANCE, FONT_SPACE_ADVANCE + 1 }

TextLengthAdvances(ch) ==
    LET chIdx == ch - FONT_MIN_ASCII
    IN  IF (chIdx >= 0) /\ (chIdx < Len(fontInfo)) THEN { fontInfo[chIdx + 1].adv }
        ELSE GarbageAdvances

\* the values nxEnd can have after the loop of textLength (idx is 1-based)
RECURSIVE TextLengthLoop(_, _)
TextLengthLoop(text, idx) ==
    IF idx > Len(text) THEN { 0 }
    ELSE { a + r : a \in TextLengthAdvances(text[idx]), r \in TextLengthLoop(text, idx + 1) }

vectorrasterizer_textLength ==
    /\ pc = "call"
    /\ args.api = "textLength"
    /\ \E n \in TextLengthLoop(args.text, 1) : nxEnd' = n
    /\ result' = "length"
    /\ pc' = "done"
    /\ UNCHANGED << args, mem, pData, pArray, pWKB, stack, nReadEnd, allocFailed, hFeature >>

\* vectorrasterizer_rasterizeLayer up to its loop over the features: the
\* array and the one context all features are written with
vectorrasterizer_rasterizeLayer ==
    /\ pc = "call"
    /\ args.api = "rasterizeLayer"
    /\ IF (args.nXSize < 0) \/ (args.nYSize < 0)
       THEN /\ pc' = "done"
            /\ result' = "error"
            /\ UNCHANGED pData
       ELSE /\ pc' = "next"
            /\ result' = result
            /\ pData' = VectorWriter_create(<< args.nYSize, args.nXSize >>, args.adExtents,
                                            args.nLineWidth, args.bFill, args.nHalfCrossSize)
    /\ UNCHANGED << args, mem, pArray, pWKB, stack, nReadEnd, allocFailed, nxEnd, hFeature >>

\* pCurrWKB after OGR_G_ExportToWkb: the record, then what the buffer held
\* behind it when it was not grown, then the memory behind the buffer
ExportToWkb(m, g, tail) ==
    LET enc == Encode(g)
        nCurrWKBSize == IF m = << >> THEN 0 ELSE Len(m) - TailLen
    IN  IF Len(enc) > nCurrWKBSize THEN enc \o [i \in 1..TailLen |-> tail]
        ELSE enc \o SubSeq(m, Len(enc) + 1, Len(m))

\* the head of the loop over the features, and the call of processAll
OGR_L_GetNextFeature ==
    /\ pc = "next"
    /\ IF hFeature < Len(args.features)
       THEN /\ hFeature' = hFeature + 1
            /\ mem' = ExportToWkb(mem, args.features[hFeature + 1], args.tail)
            /\ pWKB' = 0
            /\ stack' = << Frame("top", 1, 0) >>
            /\ pc' = "decode"
       ELSE /\ pc' = "return"
            /\ UNCHANGED << hFeature, mem, pWKB, stack >>
    /\ UNCHANGED << args, pData, pArray, nReadEnd, allocFailed, result, nxEnd >>

Next ==
    \/ vectorrasterizer_rasterizeWKB
    \/ VectorWriter_processWKB
    \/ VectorWriter_processPolygon
    \/ VectorWriter_processMultiPoint
    \/ VectorWriter_processMultiLineString
    \/ VectorWriter_processMultiPolygon
    \/ LoopReturn
    \/ VectorWriter_processAll
    \/ ReturnArray
    \/ vectorrasterizer_fillVertices
    \/ vectorrasterizer_printText
    \/ vectorrasterizer_textLength
    \/ vectorrasterizer_rasterizeLayer
    \/ OGR_L_GetNextFeature

Spec == Init /\ [][Next]_vars


(***************************************************************************)
(* The properties.  What a record should burn is written from the          *)
(* arguments of the call: RefCol, RefRow map a geographic coordinate to    *)
(* its pixel by integer arithmetic, for an extent of positive resolution.  *)
(***************************************************************************)
TruncDiv(a, b) == IF a >= 0 THEN a \div b ELSE -((-a) \div b)

RefCol(x) ==
    TruncDiv((x - args.adExtents[1]) * args.nXSize, args.adExtents[3] - args.adExtents[1])

RefRow(y) ==
    TruncDiv((args.adExtents[2] - y) * args.nXSize, args.adExtents[3] - args.adExtents[1])

InCanvas(c) ==
    (c[1] >= 0) /\ (c[1] < args.nXSize) /\ (c[2] >= 0) /\ (c[2] < args.nYSize)

Range(f) == { f[i] : i \in DOMAIN f }

\* the Bresenham steps between the pixels of two vertices
RefSteps(a, b) == Range(BresenhamSteps(RefCol(a[1]), RefRow(a[2]), RefCol(b[1]), RefRow(b[2])))

RECURSIVE HasOther(_)
HasOther(g) == (g.t = "Other") \/ (\E i \in DOMAIN g.parts : HasOther(g.parts[i]))

\* a record or a member of it has a fourth ordinate per vertex
RECURSIVE HasFourth(_)
HasFourth(g) == (g.z = 2) \/ (\E i \in DOMAIN g.parts : HasFourth(g.parts[i]))

\* the buffer holds a whole record of supported kinds only
WellFormed ==
    (args.api = "rasterizeWKB") /\ (args.cut = 0) /\ ~HasOther(args.geom) /\ ~HasFourth(args.geom)

\* the call of processWKB made by processAll has returned
WKBReturned ==
    /\ args.api = "rasterizeWKB"
    /\ (pc \in {"fill", "return"}) \/ ((pc = "done") /\ (result = "array"))

\* a whole record of the given kind has been rasterized on a valid canvas
Rasterized(t) ==
    WKBReturned /\ WellFormed /\ ~InvalidParameters(args) /\ (args.geom.t = t)

\* C1: every cell that is written has its column in [0, width) and its row
\* in [0, height), whatever burned it (stroke of any width, Bresenham step,
\* cross, scanline fill, glyph); targets outside are dropped and the call of
\* a well-formed record on a valid canvas still returns the canvas.
C1_WritesInsideCanvas ==
    /\ \A c \in pArray : InCanvas(c)
    /\ ((pc = "done") /\ WellFormed /\ ~InvalidParameters(args) /\ ~allocFailed)
          => (result = "array")

\* a filled, stroked triangle whose lower edge lies on the row below the
\* canvas has been burned
C1_Witness ==
    /\ pc = "done"
    /\ result = "array"
    /\ args.geom = Poly(0, << Triangle >>)
    /\ ~InvalidParameters(args)
    /\ args.bFill = 1
    /\ args.nLineWidth = 2
    /\ ~allocFailed
    /\ RefRow(Triangle[1][2]) >= args.nYSize
    /\ Cardinality(pArray) > 3

\* C2: for a well-formed record of supported kinds, in every context,
\* processWKB returns the cursor at the record's start plus its encoded
\* length; the LineString skip path (stroke width 0) included.
C2_CursorPastRecord ==
    (WellFormed /\ (pc \in {"fill", "return"})) => (pWKB = Len(Encode(args.geom)))

\* a 2.5D LineString of three vertices went down the skip path
C2_Witness ==
    /\ pc = "fill"
    /\ WellFormed
    /\ args.geom.t = "LineString"
    /\ args.geom.z = 1
    /\ Len(args.geom.pts) = 3
    /\ pData.nLineWidth = 0
    /\ pWKB = 1 + SizeofU32 + SizeofU32 + 3 * 3 * SizeofDouble

\* C3: with a buffer shorter than its record, the decoder reads no byte at
\* an offset >= the buffer length and the call ends as a decode error.
C3_TruncatedRejected ==
    ((args.api = "rasterizeWKB") /\ (args.cut > 0))
        => /\ nReadEnd <= args.nWKBSize
           /\ (pc = "done") => (result = "error")

RecognisedTags ==
    { wkbPoint, wkbLineString, wkbPolygon, wkbMultiPoint, wkbMultiLineString,
      wkbMultiPolygon, wkbGeometryCollection, wkbNone,
      wkbPoint25D, wkbLineString25D, wkbPolygon25D, wkbMultiPoint25D,
      wkbMultiLineString25D, wkbMultiPolygon25D, wkbGeometryCollection25D }

\* C4: a call of processWKB on a record whose tag is not recognised returns
\* with the cursor 5 bytes behind the record's start, decoding goes on, and
\* no cell is burned and no ring accumulated for it.
C4_UnknownTagSkipped ==
    [][ ( /\ InLoop({"top", "gc"})
          /\ CanRead(mem, pWKB + 1, SizeofU32)
          /\ Bytes(mem, pWKB + 1, SizeofU32) \notin RecognisedTags )
        => ( /\ pWKB' = pWKB + 5
             /\ pArray' = pArray
             /\ pData' = pData
             /\ pc' = "decode"
             /\ result' = result ) ]_vars

\* a collection of a point and a member of unknown tag has been decoded:
\* the point is burned, the pixel of the unknown member's body is not
C4_Witness ==
    /\ pc = "fill"
    /\ args.geom = Multi("GeometryCollection", 0, << Pt(0, 2, 2), Other(0, 1, 1) >>)
    /\ ~InvalidParameters(args)
    /\ pData.nLineWidth = 1
    /\ pData.nHalfCrossSize = 1
    /\ pWKB = Len(Encode(args.geom.parts[1])) + 1 + SizeofU32 + SizeofU32 + 5
    /\ pArray = { c \in { << RefCol(2), RefRow(2) >> } : InCanvas(c) }
    /\ pArray # { }
    /\ pData.pFirstSlab = << >>

\* C5: invalid parameters are rejected before any byte is decoded or any
\* cell written.
C5_InvalidRejected ==
    InvalidParameters(args)
        => /\ nReadEnd = 0
           /\ pArray = { }
           /\ (pc = "done") => (result = "error")

\* C6: a failed allocation of the ring accumulator or of the fill's scratch
\* buffer ends the call with an error; the canvas is not returned.
C6_AllocFailureReported ==
    (allocFailed /\ (pc = "done")) => (result = "error")

\* C7: a ring of N >= 3 vertices decoded with stroke width > 0 has the
\* Bresenham line from its last vertex to its first among the burned cells,
\* whether or not the record repeats the first vertex.
C7_RingClosed ==
    (Rasterized("Polygon") /\ (args.nLineWidth > 0))
        => \A k \in DOMAIN args.geom.parts :
              LET pts == args.geom.parts[k].pts
                  N == Len(pts)
              IN  (N >= 3) => ({ c \in RefSteps(pts[N], pts[1]) : InCanvas(c) } \subseteq pArray)

\* an unfilled triangle that does not repeat its first vertex: the cells of
\* the left column come from the closing edge alone
C7_Witness ==
    /\ pc = "done"
    /\ Rasterized("Polygon")
    /\ args.geom = Poly(0, << Triangle >>)
    /\ Triangle[Len(Triangle)] # Triangle[1]
    /\ args.nLineWidth = 1
    /\ args.bFill = 0
    /\ RefCol(0) = 0
    /\ RefRow(0) - RefRow(MaxCoord - 1) >= 2
    /\ << 0, RefRow(MaxCoord - 1) + 1 >> \in pArray

\* C8: for a LineString decoded with stroke width 1 the cells set are
\* exactly the in-canvas part of the union of the Bresenham step sequences
\* of its consecutive vertex pairs.
C8_LineStringUnion ==
    (Rasterized("LineString") /\ (args.nLineWidth = 1))
        => LET pts == args.geom.pts
           IN  pArray = { c \in UNION { RefSteps(pts[i], pts[i + 1]) : i \in 1..(Len(pts) - 1) } :
                            InCanvas(c) }

\* a line of three vertices, partly outside the canvas, has been burned
C8_Witness ==
    /\ pc = "done"
    /\ Rasterized("LineString")
    /\ args.nLineWidth = 1
    /\ Len(args.geom.pts) = 3
    /\ \E c \in RefSteps(args.geom.pts[2], args.geom.pts[3]) : ~InCanvas(c)
    /\ Cardinality(pArray) >= 4

\* C9: for stroke width W > 1 a plotted pixel (x, y) burns exactly the
\* in-canvas cells of the square of columns x - ceil((W-1)/2) ..
\* x + floor((W-1)/2) and the same rows: W by W, with one more pixel to the
\* north and west than to the south and east when W is even.
C9_WidthSquare ==
    (Rasterized("Point") /\ (args.nHalfCrossSize = 1) /\ (args.nLineWidth > 1))
        => LET W == args.nLineWidth
               x == RefCol(args.geom.pts[1][1])
               y == RefRow(args.geom.pts[1][2])
               nw == W \div 2
               se == (W - 1) \div 2
           IN  /\ pArray = { c \in ((x - nw)..(x + se)) \X ((y - nw)..(y + se)) : InCanvas(c) }
               /\ nw + se + 1 = W
               /\ (W % 2 = 0) => (nw = se + 1)

\* a point plotted with width 2 well inside the canvas: the 2 by 2 square
\* up and left of it
C9_Witness ==
    /\ pc = "done"
    /\ Rasterized("Point")
    /\ args.nHalfCrossSize = 1
    /\ args.nLineWidth = 2
    /\ Cardinality(pArray) = 4
    /\ << RefCol(args.geom.pts[1][1]) - 1, RefRow(args.geom.pts[1][2]) - 1 >> \in pArray
    /\ << RefCol(args.geom.pts[1][1]) + 1, RefRow(args.geom.pts[1][2]) + 1 >> \notin pArray

\* C10 as stated: a point burned with half-length H and stroke width 1 is
\* the '+' of the 2H+1 columns nx-H .. nx+H on row ny and the 2H+1 rows
\* ny-H .. ny+H on column nx, clipped at the canvas edges.
C10_CrossSymmetric ==
    (Rasterized("Point") /\ (args.nLineWidth = 1))
        => LET H == args.nHalfCrossSize
               nx == RefCol(args.geom.pts[1][1])
               ny == RefRow(args.geom.pts[1][2])
           IN  pArray = { c \in (((nx - H)..(nx + H)) \X { ny }) \cup ({ nx } \X ((ny - H)..(ny + H))) :
                            InCanvas(c) }

\* C10 amended: with stroke width 1 a point burned with half-length H > 1 is
\* the run of the 2H columns nx-H .. nx+H-1 on row ny and the run of the 2H
\* rows ny-H .. ny+H-1 on column nx, clipped at the canvas edges; with
\* H = 1 it is the mapped pixel alone.
C10_CrossRuns ==
    (Rasterized("Point") /\ (args.nLineWidth = 1) /\ (args.nHalfCrossSize >= 1))
        => LET H == args.nHalfCrossSize
               nx == RefCol(args.geom.pts[1][1])
               ny == RefRow(args.geom.pts[1][2])
               runs == (((nx - H)..(nx + H - 1)) \X { ny }) \cup ({ nx } \X ((ny - H)..(ny + H - 1)))
           IN  pArray = IF H > 1 THEN { c \in runs : InCanvas(c) }
                        ELSE { c \in { << nx, ny >> } : InCanvas(c) }

\* a cross of half-length 2 whose right and lower ends nx+2, ny+2 are in the
\* canvas and are not burned
C10_Witness ==
    /\ pc = "done"
    /\ Rasterized("Point")
    /\ args.nLineWidth = 1
    /\ args.nHalfCrossSize = 2
    /\ LET nx == RefCol(args.geom.pts[1][1])
           ny == RefRow(args.geom.pts[1][2])
       IN  /\ InCanvas(<< nx + 2, ny >>)
           /\ << nx + 2, ny >> \notin pArray
           /\ << nx + 1, ny >> \in pArray
           /\ << nx - 1, ny >> \in pArray
           /\ << nx, ny - 1 >> \in pArray


\* C11: with cross half-length 0 and stroke width >= 1, a point whose mapped
\* pixel is inside the canvas burns exactly that pixel.
C11_ZeroCrossSinglePixel ==
    LET c == << RefCol(args.geom.pts[1][1]), RefRow(args.geom.pts[1][2]) >>
    IN  (Rasterized("Point") /\ (args.nHalfCrossSize = 0) /\ (args.nLineWidth >= 1) /\ InCanvas(c))
            => (pArray = { c })


\* the centre of a cell lies strictly inside, or inside or on, the square
\* lo..hi by lo..hi (the centre of column c is minX + (c + 1/2) * resolution)
CentreInside(c, lo, hi, strict) ==
    LET w == args.adExtents[3] - args.adExtents[1]
        n == args.nXSize
        x2 == 2 * n * args.adExtents[1] + (2 * c[1] + 1) * w
        y2 == 2 * n * args.adExtents[2] - (2 * c[2] + 1) * w
        l == 2 * n * lo
        h == 2 * n * hi
    IN  IF strict THEN (l < x2) /\ (x2 < h) /\ (l < y2) /\ (y2 < h)
        ELSE (l <= x2) /\ (x2 <= h) /\ (l <= y2) /\ (y2 <= h)

Canvas == (0..(args.nXSize - 1)) \X (0..(args.nYSize - 1))

\* a filled, unstroked polygon has been rasterized with every malloc succeeding
FilledUnstroked(g) ==
    /\ Rasterized("Polygon")
    /\ pc \in {"return", "done"}
    /\ args.geom = g
    /\ args.bFill = 1
    /\ args.nLineWidth = 0
    /\ ~allocFailed

\* C12: the filled, unstroked square (0,10),(10,10),(10,0),(0,0) on the 10 by
\* 10 canvas of extent (0,10,10,0) leaves the one-pixel border of the canvas
\* at 0 and has every interior cell at 1.
C12_SquareBorderErased ==
    (FilledUnstroked(Poly(0, << BigSquare >>)) /\ (args.nXSize = 10))
        => (pArray = (1..8) \X (1..8))

\* C13: filling (stroke width 0) the square of side 10 with the concentric
\* hole of side 4 leaves every cell whose centre is inside the hole at 0 and
\* sets every cell whose centre is between the two rings to 1.
C13_HoleUnfilled ==
    FilledUnstroked(Poly(0, << BigSquare, InnerSquare >>))
        => \A c \in Canvas :
              /\ CentreInside(c, 3, 7, TRUE) => (c \notin pArray)
              /\ (CentreInside(c, 0, 10, TRUE) /\ ~CentreInside(c, 3, 7, FALSE)) => (c \in pArray)

\* on the 10 by 10 canvas: the 84 cells of the annulus, none of the hole's 16
C13_Witness ==
    /\ pc = "done"
    /\ FilledUnstroked(Poly(0, << BigSquare, InnerSquare >>))
    /\ args.nXSize = 10
    /\ Cardinality(pArray) = 84
    /\ << 4, 4 >> \notin pArray
    /\ << 2, 4 >> \in pArray
    /\ << 7, 6 >> \in pArray


\* a point record has been burned as one pixel of stroke width 1
PointMapped ==
    Rasterized("Point") /\ (args.nHalfCrossSize = 1) /\ (args.nLineWidth = 1)

\* the pixel c, mapped back to minX + column * resolution, maxY - row *
\* resolution, is less than one resolution unit from pt in each axis
MapsBackNear(c, pt) ==
    LET w == args.adExtents[3] - args.adExtents[1]
        n == args.nXSize
        ex == (pt[1] - args.adExtents[1]) * n - c[1] * w
        ey == (args.adExtents[2] - pt[2]) * n - c[2] * w
    IN  (-w < ex) /\ (ex < w) /\ (-w < ey) /\ (ey < w)

\* C14 as stated: every point inside the extent maps to a pixel inside the
\* canvas that maps back to within one resolution unit of the point.
C14_RoundTripClosed ==
    LET pt == args.geom.pts[1]
    IN  ( /\ PointMapped
          /\ (args.adExtents[1] <= pt[1]) /\ (pt[1] <= args.adExtents[3])
          /\ (args.adExtents[4] <= pt[2]) /\ (pt[2] <= args.adExtents[2]) )
            => /\ pArray # { }
               /\ \A c \in pArray : InCanvas(c) /\ MapsBackNear(c, pt)

\* C14 amended: for every point with minX <= x < maxX and minY < y <= maxY,
\* on a canvas whose nYSize rows of one resolution unit cover maxY - minY,
\* the mapped pixel is inside the canvas and maps back to within one
\* resolution unit of the point in each axis.
C14_RoundTripHalfOpen ==
    LET pt == args.geom.pts[1]
    IN  ( /\ PointMapped
          /\ (args.adExtents[1] <= pt[1]) /\ (pt[1] < args.adExtents[3])
          /\ (args.adExtents[4] < pt[2]) /\ (pt[2] <= args.adExtents[2])
          /\ (args.adExtents[2] - args.adExtents[4]) * args.nXSize
                <= args.nYSize * (args.adExtents[3] - args.adExtents[1]) )
            => /\ Cardinality(pArray) = 1
               /\ \A c \in pArray : InCanvas(c) /\ MapsBackNear(c, pt)

\* a point that is not on a pixel boundary has been mapped, at resolution 2
C14_Witness ==
    /\ pc = "done"
    /\ PointMapped
    /\ args.adExtents[3] - args.adExtents[1] = 2 * args.nXSize
    /\ (args.geom.pts[1][1] - args.adExtents[1]) % 2 = 1
    /\ (args.adExtents[2] - args.geom.pts[1][2]) % 2 = 1
    /\ args.geom.pts[1][1] > args.adExtents[1]
    /\ args.geom.pts[1][2] < args.adExtents[2]
    /\ pArray = { << RefCol(args.geom.pts[1][1]), RefRow(args.geom.pts[1][2]) >> }

\* a label has been drawn by printText on a valid canvas
LabelDrawn ==
    (args.api = "printText") /\ (pc = "done") /\ (result = "array") /\ ~InvalidParameters(args)

Supported(ch) == (ch >= FONT_MIN_ASCII) /\ (ch <= FONT_MAX_ASCII)

\* the advance of one character: the fixed one for the space, the glyph's
\* for a supported character, none for any other
RefAdvance(ch) ==
    IF ch = SpaceChar THEN FONT_SPACE_ADVANCE
    ELSE IF Supported(ch) THEN fontInfo[ch - FONT_MIN_ASCII + 1].adv
    ELSE 0

RECURSIVE RefAdvances(_, _)
RefAdvances(text, n) == IF n = 0 THEN 0 ELSE RefAdvances(text, n - 1) + RefAdvance(text[n])

\* the pen of the i-th character of the label: the anchor's column and the
\* advances of the characters before it
RefPen(i) == RefCol(args.x[1]) + RefAdvances(args.text, i - 1)

\* the non-zero pixels of the glyph of the i-th character, placed at its pen
GlyphPixels(i) ==
    LET chIdx == args.text[i] - FONT_MIN_ASCII
        info == fontInfo[chIdx + 1]
        width == info.left + info.adv + info.right
    IN  { << RefPen(i) - info.left + col, RefRow(args.y[1]) - FONT_ASCENT + row >> :
            << col, row >> \in
                { cr \in (0..(width - 1)) \X (0..(FONT_HEIGHT - 1)) :
                    fontData[chIdx + 1][cr[2] + 1][FONT_MAX_LEFT_BEARING - info.left + cr[1] + 1] # 0 } }

\* the i-th character is reached: the anchor is not off the right or bottom
\* edge and the pen after every glyph before it is left of the right edge
Reached(i) ==
    /\ RefCol(args.x[1]) < args.nXSize
    /\ RefRow(args.y[1]) - FONT_ASCENT < args.nYSize
    /\ \A j \in 1..(i - 1) : Supported(args.text[j]) => (RefPen(j + 1) < args.nXSize)

Glyphs == { i \in DOMAIN args.text : Supported(args.text[i]) }

\* C15: a label is drawn in whole glyphs: there is a k such that the drawn
\* cells are all the non-zero pixels at non-negative coordinates of the
\* glyphs of the first k characters, and nothing of the characters after.
C15_WholeGlyphs ==
    LabelDrawn
        => \E k \in 0..Len(args.text) :
              pArray = UNION { { c \in GlyphPixels(i) : (c[1] >= 0) /\ (c[2] >= 0) } :
                                  i \in { j \in Glyphs : j <= k } }

\* C15 amended: the drawn cells are the non-zero pixels inside the canvas of
\* the glyphs of the characters reached, so that a glyph across an edge is
\* drawn in part, and nothing of the characters not reached.
C15_GlyphsClipped ==
    LabelDrawn
        => pArray = UNION { { c \in GlyphPixels(i) : InCanvas(c) } : i \in { j \in Glyphs : Reached(j) } }

\* a glyph with non-zero pixels on both sides of the right edge has been
\* drawn in part, and a later glyph has not been drawn
C15_Witness ==
    /\ LabelDrawn
    /\ \E i \in Glyphs :
          /\ Reached(i)
          /\ \E c \in GlyphPixels(i) : InCanvas(c) /\ (c \in pArray)
          /\ \E c \in GlyphPixels(i) : (c[1] >= args.nXSize) /\ (c[2] >= 0) /\ (c[2] < args.nYSize)
          /\ \E j \in Glyphs : (j > i) /\ ~Reached(j)

\* the string is made of supported characters and spaces
Printable == \A i \in DOMAIN args.text : Supported(args.text[i]) \/ (args.text[i] = SpaceChar)

\* C16: for a string of supported characters and spaces textLength returns
\* the sum of the advances of its characters, a space counting for the fixed
\* space advance, and that is the advance drawLabel gives the pen on a
\* canvas wide enough for the string.
C16_TextLengthIsPenAdvance ==
    LET total == RefAdvances(args.text, Len(args.text))
    IN  /\ ((args.api = "textLength") /\ (pc = "done") /\ Printable) => (nxEnd = total)
        /\ (LabelDrawn /\ Printable /\ (RefCol(args.x[1]) + total < args.nXSize)
               /\ (RefRow(args.y[1]) - FONT_ASCENT < args.nYSize))
              => (nxEnd - RefCol(args.x[1]) = total)

\* the records a call decodes: the one of rasterizeWKB, the features of rasterizeLayer
Records ==
    IF args.api = "rasterizeLayer" THEN Range(args.features)
    ELSE IF args.api = "rasterizeWKB" THEN { args.geom }
    ELSE { }

\* the Points, LineStrings and LinearRings of a record
RECURSIVE Leaves(_)
Leaves(g) == IF g.parts = << >> THEN { g } ELSE UNION { Leaves(g.parts[i]) : i \in DOMAIN g.parts }

\* a stroke/fill call of whole records of supported kinds has returned its
\* canvas
StrokeFillReturned ==
    /\ args.api \in {"rasterizeWKB", "rasterizeLayer"}
    /\ (pc = "done") /\ (result = "array")
    /\ (args.cut = 0) /\ ~InvalidParameters(args)
    /\ \A g \in Records : ~HasOther(g) /\ ~HasFourth(g)

\* the cells a stroke of the call's width aims at when it plots the pixel c
StrokeSquare(c) ==
    LET W == args.nLineWidth
    IN  IF W < 1 THEN { }
        ELSE ((c[1] - (W \div 2))..(c[1] + ((W - 1) \div 2))) \X ((c[2] - (W \div 2))..(c[2] + ((W - 1) \div 2)))

\* the pixels a point marker plots
MarkerPixels(pt) ==
    LET H == args.nHalfCrossSize
        x == RefCol(pt[1])
        y == RefRow(pt[2])
    IN  IF H < 1 THEN { }
        ELSE IF H = 1 THEN { << x, y >> }
        ELSE (((x - H)..(x + H - 1)) \X { y }) \cup ({ x } \X ((y - H)..(y + H - 1)))

\* the pixels the edges of a LineString or of a LinearRing (closed) plot
EdgePixels(l) ==
    LET N == Len(l.pts)
    IN  UNION { RefSteps(l.pts[i], l.pts[i + 1]) : i \in 1..(N - 1) }
            \cup (IF (l.t = "LinearRing") /\ (N >= 1) THEN RefSteps(l.pts[N], l.pts[1]) ELSE { })

StrokeTargets(g) ==
    UNION { UNION { StrokeSquare(c) :
                      c \in IF l.t = "Point" THEN MarkerPixels(l.pts[1])
                            ELSE IF l.t \in {"LineString", "LinearRing"} THEN EdgePixels(l)
                            ELSE { } } :
              l \in Leaves(g) }

\* the vertices of the rings of a record
RingVertices(g) == UNION { Range(l.pts) : l \in { r \in Leaves(g) : r.t = "LinearRing" } }

\* the cells a fill of the record can aim at: rows whose centre is not above
\* the highest and not below the lowest ring vertex, columns from one left
\* of the leftmost to one right of the rightmost ring vertex
FillTargets(g) ==
    LET V == RingVertices(g)
        E == args.adExtents[3] - args.adExtents[1]
        n == args.nXSize
    IN  IF (args.bFill = 0) \/ (V = { }) THEN { }
        ELSE { c \in Canvas :
                 /\ \E v \in V : 2 * (args.adExtents[2] - v[2]) * n <= (2 * c[2] + 1) * E
                 /\ \E v \in V : 2 * (args.adExtents[2] - v[2]) * n >= (2 * c[2] + 1) * E
                 /\ \E v \in V : (v[1] - args.adExtents[1]) * n - E <= c[1] * E
                 /\ \E v \in V : (v[1] - args.adExtents[1]) * n + E >= c[1] * E }

\* C17: a stroke/fill call returns a canvas of the requested width and
\* height in which a cell is set only if a marker, a stroke or the fill of
\* one of the call's records aimed at it; every other cell is still 0.
C17_OnlyTargetedCellsSet ==
    StrokeFillReturned
        => /\ (pData.nXSize = args.nXSize) /\ (pData.nYSize = args.nYSize)
           /\ pArray \subseteq Canvas
           /\ pArray \subseteq UNION { StrokeTargets(g) \cup FillTargets(g) : g \in Records }

\* a filled and stroked polygon on a canvas wider than high: some cells are
\* still 0, and one of the cells set was aimed at by the fill alone
C17_Witness ==
    /\ StrokeFillReturned
    /\ args.nXSize > args.nYSize
    /\ (args.bFill = 1) /\ (args.nLineWidth >= 1)
    /\ \E g \in Records : g.t = "Polygon"
    /\ pArray # { }
    /\ pArray # Canvas
    /\ \E c \in pArray : \A g \in Records : c \notin StrokeTargets(g)

\* the rings of a record that have a vertex, each the sequence of its
\* vertices, in the order of the record
RECURSIVE RingsInOrder(_)
RingsInOrder(g) ==
    IF g.t = "LinearRing" THEN (IF g.pts = << >> THEN << >> ELSE << g.pts >>)
    ELSE Concat([i \in 1..Len(g.parts) |-> RingsInOrder(g.parts[i])])

\* a whole record with extra ordinates has been decoded on a valid canvas
ExtendedDecoded ==
    /\ WKBReturned
    /\ (args.cut = 0) /\ ~HasOther(args.geom) /\ ~InvalidParameters(args)
    /\ args.geom.z >= 1

\* C18: a record with a third, or a third and a fourth, ordinate per vertex
\* is decoded as the 2-D record of the same x and y: the cursor ends behind
\* the extended record; a point burns the marker of its x and y, a
\* LineString of stroke width 1 the lines of its vertices; and the rings
\* accumulated for the fill are the rings of the record.
C18_ExtraOrdinatesSkipped ==
    ExtendedDecoded
        => /\ (pc \in {"fill", "return"}) => (pWKB = Len(Encode(args.geom)))
           /\ (args.geom.t \in {"Point", "LineString"} /\ (args.nLineWidth = 1))
                 => (pArray = { c \in StrokeTargets(args.geom) : InCanvas(c) })
           /\ ((pc = "fill") /\ (args.bFill = 1) /\ ~allocFailed)
                 => (pData.pFirstSlab = RingsInOrder(args.geom))

\* the geographic Y of the centre of row ny
RefRowY(ny) ==
    RSub(RInt(args.adExtents[2]),
         RMul(Rat(2 * ny + 1, 2), Rat(args.adExtents[3] - args.adExtents[1], args.nXSize)))

\* the edges of all rings of a record: ring k, from its vertex i to the
\* vertex before it (the last one for the first)
Edges(g) ==
    LET rings == RingsInOrder(g)
    IN  { [k |-> k, i |-> i,
           a |-> rings[k][i],
           b |-> rings[k][IF i = 1 THEN Len(rings[k]) ELSE i - 1]] :
            << k, i >> \in { ki \in (DOMAIN rings) \X (1..(3 * MaxCoord)) : ki[2] <= Len(rings[ki[1]]) } }

\* the edges that meet the row: one end below its centre, the other not
RowEdges(g, ny) ==
    LET Y == RefRowY(ny)
    IN  { e \in Edges(g) : (RLt(RInt(e.a[2]), Y) /\ RLe(Y, RInt(e.b[2])))
                              \/ (RLt(RInt(e.b[2]), Y) /\ RLe(Y, RInt(e.a[2]))) }

\* the X-intercept of an edge with the row
Intercept(e, ny) ==
    RAdd(RInt(e.a[1]),
         RDiv(RMul(RSub(RefRowY(ny), RInt(e.a[2])), RInt(e.b[1] - e.a[1])), RInt(e.b[2] - e.a[2])))

\* how many intercepts of the row, over all rings, are not right of p
InterceptsUpTo(g, ny, p) == Cardinality({ e \in RowEdges(g, ny) : RLe(Intercept(e, ny), p) })

\* the row is scanned: its centre is within the Y range << lowest, highest >>
RowScanned(range, ny) ==
    RLe(RInt(range[1]), RefRowY(ny)) /\ RLe(RefRowY(ny), RInt(range[2]))

\* the Y range the fill has tracked for the rings it was given
TrackedRange == << pData.dMinY, pData.dMaxY >>

\* the lowest and the highest Y of the ring vertices of a record
VertexRange(g) ==
    LET ys == { v[2] : v \in RingVertices(g) }
    IN  IF ys = { } THEN << 0, 0 >>
        ELSE << CHOOSE lo \in ys : \A y \in ys : lo <= y, CHOOSE hi \in ys : \A y \in ys : y <= hi >>

\* The cell c is the column of a sampled position right of an odd number of
\* intercepts: the samples of a span start at its left intercept, or at the
\* left edge of the extent if that is further right, are one resolution
\* apart, end before the next intercept and before the right edge of the
\* extent, and each is burned in the column nearest to it.  Only rows
\* whose centre is in the given Y range are scanned.
FillRef(g, range, c) ==
    /\ RowScanned(range, c[2])
    /\ \E e \in RowEdges(g, c[2]) :
          LET res == Rat(args.adExtents[3] - args.adExtents[1], args.nXSize)
              minX == RInt(args.adExtents[1])
              a == Intercept(e, c[2])
              s == IF RLt(a, minX) THEN minX ELSE a
              k == c[1] - RRound(RDiv(RSub(s, minX), res))
              p == RAdd(s, RMul(RInt(k), res))
          IN  /\ k >= 0
              /\ RLt(p, RInt(args.adExtents[3]))
              /\ InterceptsUpTo(g, c[2], a) % 2 = 1
              /\ InterceptsUpTo(g, c[2], p) = InterceptsUpTo(g, c[2], a)

FillCells(g, range) == { c \in Canvas : FillRef(g, range, c) }

\* C20: the rings of a record, whatever polygon or member they belong to,
\* are in one accumulator in the order of the record when the fill starts,
\* and with no stroke the cells burned are, in the rows scanned, those of
\* the sampled positions that lie right of an odd number of the row's
\* intercepts, counted over all rings.
C20_EvenOddOverAllRings ==
    (WKBReturned /\ WellFormed /\ ~InvalidParameters(args) /\ (args.bFill = 1) /\ ~allocFailed)
        => /\ (pc = "fill") => (pData.pFirstSlab = RingsInOrder(args.geom))
           /\ ((pc \in {"return", "done"}) /\ (args.nLineWidth <= 0))
                 => (pArray = FillCells(args.geom, TrackedRange))

\* a MultiPolygon of three rings has been filled without stroke: a row is
\* met by four edges or more, with cells burned and cells left at 0
C20_Witness ==
    /\ WKBReturned /\ WellFormed /\ ~InvalidParameters(args) /\ (args.bFill = 1) /\ ~allocFailed
    /\ (pc = "done") /\ (args.nLineWidth = 0)
    /\ args.geom.t = "MultiPolygon"
    /\ Len(RingsInOrder(args.geom)) >= 3
    /\ \E ny \in 0..(args.nYSize - 1) :
          /\ Cardinality(RowEdges(args.geom, ny)) >= 4
          /\ \E c \in Canvas : (c[2] = ny) /\ (c \in pArray)
          /\ \E c \in Canvas : (c[2] = ny) /\ (c \notin pArray)

\* a call with fill requested, of whole records of supported kinds on a
\* valid canvas, in which no allocation has failed
FillRequested ==
    /\ (args.api = "rasterizeLayer") \/ WellFormed
    /\ ~InvalidParameters(args)
    /\ (args.bFill = 1) /\ ~allocFailed

\* the record processAll is working on
CurrentRecord == IF args.api = "rasterizeLayer" THEN args.features[hFeature] ELSE args.geom

\* the Y range the fill of a record scans: that of the vertices of its first
\* ring and of the second and later vertices of its other rings
ScannedRange(g) ==
    LET rings == RingsInOrder(g)
        ys == { rings[ki[1]][ki[2]][2] :
                  ki \in { kj \in (DOMAIN rings) \X (1..(3 * MaxCoord)) :
                             (kj[2] <= Len(rings[kj[1]])) /\ ((kj[1] = 1) \/ (kj[2] >= 2)) } }
    IN  IF ys = { } THEN << 0, 0 >>
        ELSE << CHOOSE lo \in ys : \A y \in ys : lo <= y, CHOOSE hi \in ys : \A y \in ys : y <= hi >>

\* the cells the fills of the first n records of the call burn, each record
\* filled by its own rings alone
FilledBy(n) ==
    UNION { LET g == IF args.api = "rasterizeLayer" THEN args.features[j] ELSE args.geom
            IN  FillCells(g, ScannedRange(g)) : j \in 1..n }

\* C19: with fill requested, while a record is decoded the accumulator holds
\* the first rings of this record and no fill of it has run; the fill
\* starts when the whole top-level record is decoded, with the rings of
\* this record and of no earlier one; and when processAll has returned the
\* accumulator is empty and each record so far has been filled by its own
\* rings.
C19_FillAfterDecodeThenEmpty ==
    FillRequested
        => /\ (pc = "decode")
                 => /\ pData.pFirstSlab = SubSeq(RingsInOrder(CurrentRecord), 1, Len(pData.pFirstSlab))
                    /\ (args.nLineWidth <= 0) => (pArray = FilledBy(hFeature - 1))
           /\ (pc = "fill")
                 => /\ stack = << >>
                    /\ pWKB = Len(Encode(CurrentRecord))
                    /\ pData.pFirstSlab = RingsInOrder(CurrentRecord)
           /\ (pc \in {"next", "return"}) \/ ((pc = "done") /\ (result = "array"))
                 => /\ pData.pFirstSlab = << >>
                    /\ (args.nLineWidth <= 0)
                          => (pArray = FilledBy(IF args.api = "rasterizeLayer" THEN hFeature ELSE 1))

\* a layer of two polygons has been filled without stroke, and the second
\* polygon's fill does not cover the cells of the first
C19_Witness ==
    /\ FillRequested
    /\ (args.api = "rasterizeLayer") /\ (pc = "done") /\ (args.nLineWidth = 0)
    /\ hFeature = 2
    /\ \A j \in 1..2 : RingsInOrder(args.features[j]) # << >>
    /\ \E c \in pArray : ~FillRef(args.features[2], ScannedRange(args.features[2]), c)
    /\ \E c \in pArray : FillRef(args.features[2], ScannedRange(args.features[2]), c)

\* C21: when the fill starts the tracked dMinY and dMaxY are the lowest and
\* the highest Y over all vertices of all accumulated rings, the first
\* vertex of the second and later rings included, and so every row whose
\* centre is within the Y range of the vertices is scanned and filled.
C21_RangeOverAllVertices ==
    (WKBReturned /\ WellFormed /\ ~InvalidParameters(args) /\ (args.bFill = 1) /\ ~allocFailed)
        => /\ ((pc = "fill") /\ (pData.pFirstSlab # << >>)) => (TrackedRange = VertexRange(args.geom))
           /\ ((pc \in {"return", "done"}) /\ (args.nLineWidth <= 0))
                 => (pArray = FillCells(args.geom, VertexRange(args.geom)))

\* FillRef with the column of a sampled position taken by truncation, as the
\* columns of stroked vertices are
FillRefTruncated(g, range, c) ==
    /\ RowScanned(range, c[2])
    /\ \E e \in RowEdges(g, c[2]) :
          LET res == Rat(args.adExtents[3] - args.adExtents[1], args.nXSize)
              minX == RInt(args.adExtents[1])
              a == Intercept(e, c[2])
              s == IF RLt(a, minX) THEN minX ELSE a
              k == c[1] - RTrunc(RDiv(RSub(s, minX), res))
              p == RAdd(s, RMul(RInt(k), res))
          IN  /\ k >= 0
              /\ RLt(p, RInt(args.adExtents[3]))
              /\ InterceptsUpTo(g, c[2], a) % 2 = 1
              /\ InterceptsUpTo(g, c[2], p) = InterceptsUpTo(g, c[2], a)

\* C22: the fill maps each sampled X position to its column as the stroke
\* maps a vertex, column = truncate((x - minX) / resolution): with no
\* stroke the cells burned are those columns of the sampled positions.
C22_FillColumnTruncates ==
    (WKBReturned /\ WellFormed /\ ~InvalidParameters(args) /\ (args.bFill = 1) /\ ~allocFailed
        /\ (pc \in {"return", "done"}) /\ (args.nLineWidth <= 0))
        => (pArray = { c \in Canvas : FillRefTruncated(args.geom, TrackedRange, c) })

\* a LineString of two vertices has been stroked with width 1
SegmentStroked ==
    Rasterized("LineString") /\ (args.nLineWidth = 1) /\ (Len(args.geom.pts) = 2)

\* the pixels of the two vertices, and the line between them in terms of its
\* dominant axis (x when |dx| >= |dy|) and its minor axis
SegFrom == << RefCol(args.geom.pts[1][1]), RefRow(args.geom.pts[1][2]) >>

SegTo == << RefCol(args.geom.pts[2][1]), RefRow(args.geom.pts[2][2]) >>

SegXMajor == Abs(SegTo[1] - SegFrom[1]) >= Abs(SegTo[2] - SegFrom[2])

SegDominant == IF SegXMajor THEN SegTo[1] - SegFrom[1] ELSE SegTo[2] - SegFrom[2]

SegMinor == IF SegXMajor THEN SegTo[2] - SegFrom[2] ELSE SegTo[1] - SegFrom[1]

\* the accumulated error before step i + 1, when m of the first i steps
\* stepped the minor axis: it starts at 2|minor| - |dominant|, every step
\* adds 2|minor| and every step of the minor axis takes 2|dominant| off
ErrorBefore(i, m) ==
    2 * Abs(SegMinor) - Abs(SegDominant) + 2 * i * Abs(SegMinor) - 2 * m * Abs(SegDominant)

\* how many of the first i steps step the minor axis, when a positive error
\* always steps it, a negative one never, and a zero one iff tie
RECURSIVE MinorSteps(_, _)
MinorSteps(i, tie) ==
    IF i = 0 THEN 0
    ELSE LET m == MinorSteps(i - 1, tie)
             e == ErrorBefore(i - 1, m)
         IN  IF (e > 0) \/ ((e = 0) /\ tie) THEN m + 1 ELSE m

\* the pixels of the line under that rule
SegPixels(tie) ==
    { LET dom == Sign(SegDominant) * i
          min == Sign(SegMinor) * MinorSteps(i, tie)
      IN  IF SegXMajor THEN << SegFrom[1] + dom, SegFrom[2] + min >>
          ELSE << SegFrom[1] + min, SegFrom[2] + dom >> : i \in 0..Abs(SegDominant) }

\* the error is zero before some step of the line
SegHasTie(tie) ==
    \E i \in 0..(Abs(SegDominant) - 1) : ErrorBefore(i, MinorSteps(i, tie)) = 0

\* C23: in VectorWriter_bresenham a positive error always steps the minor
\* axis, a negative one never, and an error of exactly zero steps it if and
\* only if the direction of the minor axis is positive.
C23_TieByMinorDirection ==
    SegmentStroked => (pArray = { c \in SegPixels(SegMinor > 0) : InCanvas(c) })

\* C23 amended: an error of exactly zero steps the minor axis if and only if
\* the direction of the dominant axis is positive.
C23_TieByDominantDirection ==
    SegmentStroked => (pArray = { c \in SegPixels(SegDominant > 0) : InCanvas(c) })

\* a line with a zero error whose dominant and minor directions differ in
\* sign has been drawn, and the two rules differ in a cell of the canvas
C23_Witness ==
    /\ SegmentStroked /\ (pc = "done")
    /\ SegHasTie(SegDominant > 0)
    /\ (SegDominant > 0) # (SegMinor > 0)
    /\ \E c \in SegPixels(SegDominant > 0) : InCanvas(c) /\ (c \notin SegPixels(SegMinor > 0)) /\ (c \in pArray)

\* C24: between two pixels VectorWriter_bresenham plots max(|dx|, |dy|) + 1
\* pixels and stops: the first is the first endpoint, the last the second,
\* and each differs from the one before by exactly 1 on the dominant axis
\* and by at most 1 on the minor axis; with width 1 the cells set are those
\* of them inside the canvas.
C24_BresenhamPath ==
    SegmentStroked
        => LET steps == BresenhamSteps(SegFrom[1], SegFrom[2], SegTo[1], SegTo[2])
               dom == IF SegXMajor THEN 1 ELSE 2
               min == IF SegXMajor THEN 2 ELSE 1
           IN  /\ Len(steps) = Abs(SegDominant) + 1
               /\ Abs(SegDominant) >= Abs(SegMinor)
               /\ steps[1] = SegFrom
               /\ steps[Len(steps)] = SegTo
               /\ \A i \in 1..(Len(steps) - 1) :
                     /\ Abs(steps[i + 1][dom] - steps[i][dom]) = 1
                     /\ Abs(steps[i + 1][min] - steps[i][min]) <= 1
               /\ pArray = { c \in Range(steps) : InCanvas(c) }

\* a line of four pixels or more that moves on both axes has been drawn,
\* with its first pixel in the canvas
C24_Witness ==
    /\ SegmentStroked /\ (pc = "done")
    /\ Abs(SegDominant) >= 3
    /\ Abs(SegMinor) >= 1
    /\ Abs(SegMinor) < Abs(SegDominant)
    /\ InCanvas(SegFrom) /\ (SegFrom \in pArray)

\* the fill is about to scan the rows: it was requested, on a valid canvas,
\* and the accumulator holds two corners or more
FillStarts ==
    /\ (pc = "fill") /\ (args.api \in {"rasterizeWKB", "rasterizeLayer"})
    /\ ~InvalidParameters(args)
    /\ (pData.bFill # 0) /\ (TotalPolycorners(pData.pFirstSlab) >= 2)

\* the rows fillPoly does not skip
ScannedRows == { ny \in 0..(args.nYSize - 1) : RowScanned(TrackedRange, ny) }

C26_NoStrokeNoFillNothingSet ==
    ((args.api \in {"rasterizeWKB", "rasterizeLayer"}) /\ (args.nLineWidth <= 0) /\ (args.bFill = 0))
        => /\ pArray = { }
           /\ (pc \in {"decode", "fill", "return"}) => (pData.nLineWidth = 0)

\* a Point or a MultiPoint with a vertex in the canvas has been decoded with
\* a negative stroke width and a cross half-length of 2 or more
C26_Witness ==
    /\ (pc = "done") /\ (result = "array") /\ WellFormed /\ ~InvalidParameters(args)
    /\ (args.nLineWidth < 0) /\ (args.bFill = 0) /\ (args.nHalfCrossSize >= 2)
    /\ args.geom.t \in {"Point", "MultiPoint"}
    /\ \E l \in Leaves(args.geom) : InCanvas(<< RefCol(l.pts[1][1]), RefRow(l.pts[1][2]) >>)
    /\ pArray = { }

\* x is west of minX by less than one resolution unit, by one unit or more,
\* or within the extent; y likewise north of maxY, or within the rows
West(x) ==
    (x < args.adExtents[1])
        /\ ((args.adExtents[1] - x) * args.nXSize < args.adExtents[3] - args.adExtents[1])

FarWest(x) == (args.adExtents[1] - x) * args.nXSize >= args.adExtents[3] - args.adExtents[1]

WithinColumns(x) == (args.adExtents[1] <= x) /\ (x < args.adExtents[3])

North(y) ==
    (y > args.adExtents[2])
        /\ ((y - args.adExtents[2]) * args.nXSize < args.adExtents[3] - args.adExtents[1])

FarNorth(y) == (y - args.adExtents[2]) * args.nXSize >= args.adExtents[3] - args.adExtents[1]

WithinRows(y) ==
    (y <= args.adExtents[2])
        /\ ((args.adExtents[2] - y) * args.nXSize < args.nYSize * (args.adExtents[3] - args.adExtents[1]))

\* the column and the row of a coordinate within the extent
ColumnWithin(x) == ((x - args.adExtents[1]) * args.nXSize) \div (args.adExtents[3] - args.adExtents[1])

RowWithin(y) == ((args.adExtents[2] - y) * args.nXSize) \div (args.adExtents[3] - args.adExtents[1])

\* C27: the conversion to pixels truncates toward zero.  A point less than
\* one resolution unit west of minX is burned in column 0, one less than a
\* unit north of maxY in row 0, and one a full unit or more outside is
\* clipped; the first vertex of a line less than a unit west is plotted in
\* column 0; a label anchored less than a unit west starts its pen at
\* column 0, one a unit or more west at a negative column, and a label
\* anchored less than a unit north has the bottom row of its glyph in row 0.
C27_TruncatesTowardZero ==
    /\ PointMapped
          => LET x == args.geom.pts[1][1]
                 y == args.geom.pts[1][2]
             IN  /\ (West(x) /\ WithinRows(y)) => (pArray = { << 0, RowWithin(y) >> })
                 /\ (North(y) /\ WithinColumns(x)) => (pArray = { << ColumnWithin(x), 0 >> })
                 /\ (West(x) /\ North(y)) => (pArray = { << 0, 0 >> })
                 /\ (FarWest(x) \/ FarNorth(y)) => (pArray = { })
    /\ SegmentStroked
          => LET x == args.geom.pts[1][1]
                 y == args.geom.pts[1][2]
             IN  (West(x) /\ WithinRows(y)) => (<< 0, RowWithin(y) >> \in pArray)
    /\ (LabelDrawn /\ (args.text = << >>))
          => /\ West(args.x[1]) => (nxEnd = 0)
             /\ FarWest(args.x[1]) => (nxEnd < 0)
    /\ (LabelDrawn /\ (args.text = << FONT_MIN_ASCII >>) /\ WithinColumns(args.x[1]))
          => /\ North(args.y[1]) => ((pArray # { }) /\ (\A c \in pArray : c[2] = 0))
             /\ FarNorth(args.y[1]) => (pArray = { })

\* a point half a resolution unit west of minX has been burned in column 0
C27_Witness ==
    /\ PointMapped /\ (pc = "done")
    /\ West(args.geom.pts[1][1]) /\ WithinRows(args.geom.pts[1][2])
    /\ 2 * (args.adExtents[1] - args.geom.pts[1][1]) * args.nXSize = args.adExtents[3] - args.adExtents[1]
    /\ pArray = { << 0, RowWithin(args.geom.pts[1][2]) >> }

=============================================================================
